---- MODULE Spec2Model ----
(***************************************************************************)
(* A model of the auto-mint scheduler of BRC20-MINT (src/mint.js): the     *)
(* adaptive while-loop driver (main, lines 378-425), checkLoop, tryMintBot,*)
(* the status store, withRetry and the Moltbook API helpers, and the       *)
(* challenge solver (solveChallengeWithGPT / parseAnswer).                 *)
(*                                                                         *)
(* Times are integers in milliseconds.  Strings that the code inspects     *)
(* character by character (oracle replies, answers) are sequences of       *)
(* one-character strings.                                                  *)
(***************************************************************************)
EXTENDS Integers, Sequences, FiniteSets, TLC

VARIABLES
  clock,      \* Date.now()
  disk,       \* content of data/status.json
  accounts,   \* the account list readBots() returns (data/accs.txt)
  apiKeySet,  \* OPENAI_API_KEY is non-empty (mint.js:493)
  mpc,        \* position of main(): "init", "call_loop", "in_loop", "calc_sleep", "sleeping", "fatal", "crashed"
  lpc,        \* position of checkLoop(): "idle" or "loop"
  mem,        \* the `status` object of the running checkLoop
  ready,      \* readyBots of the running checkLoop: sequence of [bot, proxyIdx]
  idx,        \* position of the for-of loop over readyBots (1-based)
  att,        \* per bot: the locals of its tryMintBot call
  sleepUntil, \* when the inter-tick timer is due
  ticks,      \* number of checkLoop calls made so far (bounded by MaxTicks)
  tickTime,   \* observer: Date.now() when the running/last checkLoop partitioned the bots
  preTick,    \* observer: the status as loaded (after initBotStatus) by the running/last checkLoop
  processed,  \* observer: bots whose attempt of the running/last tick has returned, in order
  outcome,    \* observer: per bot, its record when its attempt returned
  started,    \* observer: bots whose attempt was started in the running/last tick, in order
  call,       \* a helper function of shared.js being applied on its own: its inputs and results
  lnk         \* the link.js process: position of main() and the locals of linkBot

\* the variables the auto-mint process does not touch
aux == <<call, lnk>>

vars == <<clock, disk, accounts, apiKeySet, mpc, lpc, mem, ready, idx, att, sleepUntil,
          ticks, tickTime, preTick, processed, outcome, started, aux>>

\* no helper is being applied on its own; link.js is not running
NoCall == [fn |-> "none"]
LinkOff == [pc |-> "off"]

-----------------------------------------------------------------------------
(* Bounds of the model *)

\* checkLoop is called at most MaxTicks times in a behaviour
MaxTicks == 2
\* oracle replies of the solver specification have at most MaxReplyLen characters
MaxReplyLen == 5
\* challenge texts given to deobfuscate have at most MaxTextLen characters
MaxTextLen == 5
\* data/proxy.txt has at most MaxProxies lines
MaxProxies == 3

-----------------------------------------------------------------------------
(* Program constants *)

MINT_COOLDOWN_MS == 30 * 60 * 1000
CHECK_INTERVAL_MS == 60 * 1000
MIN_SLEEP_MS == 10000
DEFAULT_RETRY_SECONDS == 1800
RETRIES == 2
RETRY_DELAY_MS == 2000
SOLVER_ATTEMPTS == 2

\* the bot names that occur in account lists, and the proxy list (data/proxy.txt)
Bots == {"Alpha", "Beta"}
Proxies == <<"p0", "p1">>

\* the instant the process is started, and how long a network call may take
StartTime == 2 * MINT_COOLDOWN_MS
NetDelay == MIN_SLEEP_MS

-----------------------------------------------------------------------------
(* Stored values *)

\* A stored timestamp field: null, an ISO-8601 string of an instant (what
\* Date.prototype.toISOString writes, millisecond precision), or a string
\* that Date cannot parse.
Null == [k |-> "null", ms |-> 0]
Invalid == [k |-> "invalid", ms |-> 0]
toISOString(t) == [k |-> "iso", ms |-> t]

\* Truthiness of a stored field: null (and an absent field) is falsy, every
\* non-empty string is truthy.
Truthy(v) == v.k # "null"

\* new Date(v).getTime(): a number, or NaN for an unparseable string.
Num(n) == [nan |-> FALSE, ms |-> n]
NaN == [nan |-> TRUE, ms |-> 0]
getTime(v) == IF v.k = "iso" THEN Num(v.ms) ELSE NaN

\* Math.max(0, x - y) with NaN propagating
MaxZeroDiff(x, y) ==
  IF x.nan \/ y.nan THEN NaN
  ELSE Num(IF x.ms - y.ms > 0 THEN x.ms - y.ms ELSE 0)

\* last_post_result: null, "mint_ok", "mint_rate_limit: <n>min", "mint_fail: <code>"
NoResult == [tag |-> "null", n |-> 0]
MintOk == [tag |-> "mint_ok", n |-> 0]
MintRateLimit(retryMin) == [tag |-> "mint_rate_limit", n |-> retryMin]
MintFail(code) == [tag |-> "mint_fail", n |-> code]

\* status[name] is undefined
NoRecord ==
  [exists |-> FALSE, claimed |-> FALSE, wallet_linked |-> FALSE,
   last_mint_attempt |-> Null, last_post_attempt |-> Null,
   last_post_result |-> NoResult, last_status_check |-> Null,
   next_mint_at |-> Null, post_ids |-> <<>>]

\* the record initBotStatus creates (next_mint_at and post_ids are absent,
\* which reads as falsy / is created on first push)
DefaultRecord == [NoRecord EXCEPT !.exists = TRUE]

EmptyStatus == [b \in Bots |-> NoRecord]

initBotStatus_Always(status, name) == [status EXCEPT ![name] = DefaultRecord]

\* lines 619-630
initBotStatus(status, name) ==
  IF ~status[name].exists THEN [status EXCEPT ![name] = DefaultRecord] ELSE status

RECURSIVE InitAll(_, _, _)
\* initBotStatus for the first n bots of the list bots, in list order
InitAll(status, bots, n) ==
  IF n = 0 THEN status ELSE initBotStatus(InitAll(status, bots, n - 1), bots[n])

\* The status file: absent, not parseable as JSON, the JSON text "null", or
\* the JSON text of a name-to-record object.
FileAbsent == [kind |-> "absent", map |-> EmptyStatus]
FileGarbage == [kind |-> "garbage", map |-> EmptyStatus]
FileNull == [kind |-> "null", map |-> EmptyStatus]
FileOf(status) == [kind |-> "map", map |-> status]

\* loadStatus: {} when the file is absent or JSON.parse throws, else what
\* JSON.parse returns, which is null for the text "null".
LoadsNull(file) == file.kind = "null"
loadStatus(file) == IF file.kind = "map" THEN file.map ELSE EmptyStatus

\* saveStatus: JSON.stringify of the object; every value kept in a record is
\* a boolean, null, a string or an array of strings, which JSON writes and
\* reads back unchanged.
saveStatus(status) == FileOf(status)

-----------------------------------------------------------------------------
(* Readiness *)

\* lines 235-237: the fallback on last_mint_attempt + cooldown
CooldownRemaining(botStatus, now) ==
  IF ~Truthy(botStatus.last_mint_attempt) THEN Num(0)
  ELSE LET t == getTime(botStatus.last_mint_attempt)
       IN IF t.nan THEN NaN
          ELSE Num(IF MINT_COOLDOWN_MS - (now - t.ms) > 0
                   THEN MINT_COOLDOWN_MS - (now - t.ms) ELSE 0)

getTimeUntilMint_IgnoreNextMintAt(botStatus, now) ==
  CooldownRemaining(botStatus, now)

getTimeUntilMint(botStatus, now) ==
  IF Truthy(botStatus.next_mint_at)
  THEN MaxZeroDiff(getTime(botStatus.next_mint_at), Num(now))
  ELSE CooldownRemaining(botStatus, now)

\* remaining === 0 and remaining > 0 (both false for NaN)
IsZero(r) == ~r.nan /\ r.ms = 0
IsPositive(r) == ~r.nan /\ r.ms > 0


-----------------------------------------------------------------------------
(* The platform's replies *)

\* an optional numeric or string field of a JSON body
NoField == [has |-> FALSE, v |-> 0]
Field(x) == [has |-> TRUE, v |-> x]
\* JavaScript truthiness of such a field: absent, 0 and null are falsy
FieldTruthy(f) == f.has /\ f.v # 0

NoResp ==
  [statusCode |-> 0, postId |-> NoField, verification_required |-> FALSE,
   next_mint_at |-> Null, retry_after_seconds |-> NoField,
   retry_after_minutes |-> NoField]

\* the request threw (socket hang up, timeout, ...): there is no reply
NetError == [NoResp EXCEPT !.statusCode = 0 - 1]

-----------------------------------------------------------------------------
(* tryMintBot: the branches on the create-post reply *)

Ceil(a, b) == (a + b - 1) \div b

RetrySeconds_MinutesFirst(json) ==
  IF FieldTruthy(json.retry_after_minutes) THEN json.retry_after_minutes.v * 60
  ELSE IF FieldTruthy(json.retry_after_seconds) THEN json.retry_after_seconds.v
  ELSE DEFAULT_RETRY_SECONDS

\* lines 313-315
RetrySeconds(json) ==
  IF FieldTruthy(json.retry_after_seconds) THEN json.retry_after_seconds.v
  ELSE IF FieldTruthy(json.retry_after_minutes) THEN json.retry_after_minutes.v * 60
  ELSE DEFAULT_RETRY_SECONDS

NextMintAfterSuccess_FromAttemptStart(json, now, t) ==
  IF Truthy(json.next_mint_at) THEN json.next_mint_at
  ELSE toISOString(now + MINT_COOLDOWN_MS)

NextMintAfterSuccess_IgnoreHint(json, now, t) == toISOString(t + MINT_COOLDOWN_MS)

\* lines 303-308; now is the attempt's start, t is Date.now() at that line
NextMintAfterSuccess(json, now, t) ==
  IF Truthy(json.next_mint_at) THEN json.next_mint_at
  ELSE toISOString(t + MINT_COOLDOWN_MS)

\* the mutation saves the id of every created post
\* the mutation records the result and leaves the timers as they were
RecordAfterSuccess_NoTimers(rec, json, verified, now, t) ==
  [rec EXCEPT !.last_post_result = MintOk]

RecordAfterSuccess_AlwaysPush(rec, json, verified, now, t) ==
  [rec EXCEPT
     !.post_ids = IF FieldTruthy(json.postId)
                  THEN Append(rec.post_ids, json.postId.v) ELSE rec.post_ids,
     !.last_mint_attempt = toISOString(now),
     !.next_mint_at = IF Truthy(json.next_mint_at) THEN json.next_mint_at
                      ELSE toISOString(t + MINT_COOLDOWN_MS),
     !.last_post_result = MintOk]

\* the mutation treats an unverified post as a failed one
RecordAfterSuccess_OnlyIfVerified(rec, json, verified, now, t) ==
  IF verified
  THEN [rec EXCEPT !.post_ids = IF FieldTruthy(json.postId)
                                THEN Append(rec.post_ids, json.postId.v) ELSE rec.post_ids,
                   !.last_mint_attempt = toISOString(now),
                   !.next_mint_at = toISOString(t + MINT_COOLDOWN_MS),
                   !.last_post_result = MintOk]
  ELSE [rec EXCEPT !.last_post_result = MintFail(json.statusCode)]

\* lines 295-309: the record after a 2xx reply
RecordAfterSuccess(rec, json, verified, now, t) ==
  [rec EXCEPT
     !.post_ids = IF FieldTruthy(json.postId) /\ verified
                  THEN Append(rec.post_ids, json.postId.v) ELSE rec.post_ids,
     !.last_mint_attempt = toISOString(now),
     !.next_mint_at = NextMintAfterSuccess(json, now, t),
     !.last_post_result = MintOk]

RecordAfterRateLimit_DefaultCooldown(rec, json, now, t) ==
  [rec EXCEPT
     !.last_post_result = MintRateLimit(Ceil(RetrySeconds(json), 60)),
     !.last_mint_attempt = toISOString(now),
     !.next_mint_at = toISOString(t + MINT_COOLDOWN_MS)]

\* lines 311-322: the record after a 429 reply
RecordAfterRateLimit(rec, json, now, t) ==
  [rec EXCEPT
     !.last_post_result = MintRateLimit(Ceil(RetrySeconds(json), 60)),
     !.last_mint_attempt = toISOString(now),
     !.next_mint_at = toISOString(t + RetrySeconds(json) * 1000)]

RecordAfterFailure_Cooldown(rec, json) ==
  [rec EXCEPT !.last_post_result = MintFail(json.statusCode),
              !.next_mint_at = toISOString(StartTime + MINT_COOLDOWN_MS)]

\* lines 323-327: the record after any other reply
RecordAfterFailure(rec, json) ==
  [rec EXCEPT !.last_post_result = MintFail(json.statusCode)]

RecordAfterStatus_TouchTimer(rec, apiStatus, now) ==
  [rec EXCEPT !.last_status_check = toISOString(now),
              !.claimed = (apiStatus = "claimed"),
              !.last_mint_attempt = toISOString(now)]

RecordAfterStatus_FailureCoolsDown(rec, apiStatus, now) ==
  IF apiStatus = "none"
  THEN [rec EXCEPT !.last_status_check = toISOString(now),
                   !.next_mint_at = toISOString(now + MINT_COOLDOWN_MS)]
  ELSE [rec EXCEPT !.last_status_check = toISOString(now),
                   !.claimed = (apiStatus = "claimed")]

\* lines 257-261: the record after the claim-status reply ("none": no status)
RecordAfterStatus(rec, apiStatus, now) ==
  IF apiStatus = "none"
  THEN [rec EXCEPT !.last_status_check = toISOString(now)]
  ELSE [rec EXCEPT !.last_status_check = toISOString(now),
                   !.claimed = (apiStatus = "claimed")]


-----------------------------------------------------------------------------
(* parseAnswer (lines 852-864) on sequences of characters *)

DigitChars == <<"0", "1", "2", "3", "4", "5", "6", "7", "8", "9">>
IsDigit(c) == \E d \in 1..10 : DigitChars[d] = c
DigitVal(c) == (CHOOSE d \in 1..10 : DigitChars[d] = c) - 1
Letters ==
  {"a", "b", "c", "d", "e", "f", "g", "h", "i", "j", "k", "l", "m", "n", "o",
   "p", "q", "r", "s", "t", "u", "v", "w", "x", "y", "z", "A", "I", "T", "_"}
\* \w of a regular expression
IsWord(c) == IsDigit(c) \/ c \in Letters
IsSpace(c) == c = " "

RECURSIVE TrimLeft(_)
TrimLeft(s) ==
  IF s # <<>> /\ IsSpace(Head(s)) THEN TrimLeft(Tail(s)) ELSE s
RECURSIVE TrimRight(_)
TrimRight(s) ==
  IF s # <<>> /\ IsSpace(s[Len(s)]) THEN TrimRight(SubSeq(s, 1, Len(s) - 1)) ELSE s
\* String.prototype.trim
Trim(s) == TrimRight(TrimLeft(s))

RECURSIVE DigitRunEnd(_, _)
\* \d* taken greedily from position i: the position after the run
DigitRunEnd(s, i) ==
  IF i <= Len(s) /\ IsDigit(s[i]) THEN DigitRunEnd(s, i + 1) ELSE i

\* Each Match...At(s, i) is the position after the match of the pattern that
\* starts at position i, or 0 when the pattern does not match there.  After
\* the optional "-" the pattern needs a digit run followed by a fixed
\* character, so the greedy run is the only candidate.
AfterSign(s, i) == IF s[i] = "-" THEN i + 1 ELSE i

\* /-?\d+\.\d{2}\b/
MatchExactAt(s, i) ==
  LET p == AfterSign(s, i)
      q == DigitRunEnd(s, p)
  IN IF /\ q > p
        /\ q + 2 <= Len(s)
        /\ s[q] = "."
        /\ IsDigit(s[q + 1])
        /\ IsDigit(s[q + 2])
        /\ (q + 3 > Len(s) \/ ~IsWord(s[q + 3]))
     THEN q + 3 ELSE 0

\* /-?\d+\.\d+/
MatchDecimalAt(s, i) ==
  LET p == AfterSign(s, i)
      q == DigitRunEnd(s, p)
      r == DigitRunEnd(s, q + 1)
  IN IF q > p /\ q < Len(s) /\ s[q] = "." /\ r > q + 1 THEN r ELSE 0

\* /-?\d+/
MatchIntegerAt(s, i) ==
  LET p == AfterSign(s, i)
      q == DigitRunEnd(s, p)
  IN IF q > p THEN q ELSE 0

NoMatch == <<>>
\* String.prototype.match without the g flag: the match at the leftmost
\* position where the pattern matches, as the matched text; NoMatch for null
MatchAt(pattern, s, i) ==
  IF pattern = "exact" THEN MatchExactAt(s, i)
  ELSE IF pattern = "decimal" THEN MatchDecimalAt(s, i)
  ELSE MatchIntegerAt(s, i)

FirstMatch(pattern, s) ==
  LET starts == {i \in 1..Len(s) : MatchAt(pattern, s, i) # 0}
  IN IF starts = {} THEN NoMatch
     ELSE LET i == CHOOSE x \in starts : \A y \in starts : x <= y
          IN SubSeq(s, i, MatchAt(pattern, s, i) - 1)

RECURSIVE DigitsValue(_)
\* the number a digit string denotes
DigitsValue(ds) ==
  IF ds = <<>> THEN 0
  ELSE 10 * DigitsValue(SubSeq(ds, 1, Len(ds) - 1)) + DigitVal(ds[Len(ds)])

RECURSIVE NumberDigits(_)
\* the decimal digits of a natural number
NumberDigits(n) ==
  IF n < 10 THEN <<DigitChars[n + 1]>>
  ELSE Append(NumberDigits(n \div 10), DigitChars[(n % 10) + 1])

\* parseFloat(text).toFixed(2) for a text of the form -?digits or
\* -?digits.digits.  toFixed writes the integer n for which n/100 is nearest to
\* the number, and a "-" when the number is below zero (so "-0.001" gives
\* "-0.00" and "-0" gives "0.00").  A third fractional digit of 5 or more
\* rounds up here; where the decimal text is exactly halfway, the binary64
\* value of the number decides in JavaScript, a case the replies drawn below
\* leave out.
ToFixed2(text) ==
  LET neg == text[1] = "-"
      body == IF neg THEN Tail(text) ELSE text
      q == DigitRunEnd(body, 1)
      intDigits == SubSeq(body, 1, q - 1)
      frac == IF q <= Len(body) THEN SubSeq(body, q + 1, Len(body)) ELSE <<>>
      f1 == IF Len(frac) >= 1 THEN DigitVal(frac[1]) ELSE 0
      f2 == IF Len(frac) >= 2 THEN DigitVal(frac[2]) ELSE 0
      up == IF Len(frac) >= 3 /\ DigitVal(frac[3]) >= 5 THEN 1 ELSE 0
      cents == DigitsValue(intDigits) * 100 + f1 * 10 + f2 + up
      nonzero == DigitsValue(intDigits) # 0 \/ DigitsValue(frac) # 0
      c2 == cents % 100
  IN (IF neg /\ nonzero THEN <<"-">> ELSE <<>>)
       \o NumberDigits(cents \div 100)
       \o <<".", DigitChars[(c2 \div 10) + 1], DigitChars[(c2 % 10) + 1]>>

\* parseAnswer returns null
NoAnswer == <<>>

parseAnswer_DecimalFirst(raw) ==
  LET trimmed == Trim(raw)
      exact == FirstMatch("exact", trimmed)
      decimal == FirstMatch("decimal", trimmed)
      integer == FirstMatch("integer", trimmed)
  IN IF decimal # NoMatch THEN ToFixed2(decimal)
     ELSE IF exact # NoMatch THEN exact
     ELSE IF integer # NoMatch THEN ToFixed2(integer)
     ELSE NoAnswer

parseAnswer(raw) ==
  LET trimmed == Trim(raw)
      exact == FirstMatch("exact", trimmed)
      decimal == FirstMatch("decimal", trimmed)
      integer == FirstMatch("integer", trimmed)
  IN IF exact # NoMatch THEN exact
     ELSE IF decimal # NoMatch THEN ToFixed2(decimal)
     ELSE IF integer # NoMatch THEN ToFixed2(integer)
     ELSE NoAnswer


-----------------------------------------------------------------------------
(* The environment: what the network, the platform and the oracle may do.   *)
(* An environment is a record of sets; each specification names its own.    *)

\* what a create-post request may end in: statusCode -1 is a thrown network
\* error; hint is "none", "invalid" or "ahead" (a valid time after the reply)
PostOutcome(code, hasId, vr, hint, secs, mins) ==
  [statusCode |-> code, hasId |-> hasId, verification_required |-> vr,
   hint |-> hint, retry_after_seconds |-> secs, retry_after_minutes |-> mins]

PostThrows == PostOutcome(0 - 1, FALSE, FALSE, "none", NoField, NoField)
PostCreated(hasId, vr, hint) == PostOutcome(201, hasId, vr, hint, NoField, NoField)
PostLimited(secs, mins) == PostOutcome(429, FALSE, FALSE, "none", secs, mins)
PostError(code) == PostOutcome(code, FALSE, FALSE, "none", NoField, NoField)

\* the reply of the outcome o received at instant t
PostResponse(o, t) ==
  [statusCode |-> o.statusCode,
   postId |-> IF o.hasId THEN Field(t) ELSE NoField,
   verification_required |-> o.verification_required,
   next_mint_at |-> IF o.hint = "ahead" THEN toISOString(t + 2 * MIN_SLEEP_MS)
                    ELSE IF o.hint = "invalid" THEN Invalid ELSE Null,
   retry_after_seconds |-> o.retry_after_seconds,
   retry_after_minutes |-> o.retry_after_minutes]

\* what an oracle request may end in: a thrown error, or a reply whose
\* content is a text (<<>>: no content)
OracleThrows == [err |-> TRUE, content |-> <<>>]
OracleSays(text) == [err |-> FALSE, content |-> text]

Text4700 == <<"4", "7", ".", "0", "0">>
TextIdk == <<"i", "d", "k">>

\* the scheduler's environment: create-post may throw, succeed (with or
\* without verification) or be rate limited
SchedEnv ==
  [delays |-> {0},
   statusOut |-> {"claimed", "pending_claim"},
   postOut |-> {PostThrows, PostCreated(TRUE, FALSE, "none"),
                PostCreated(TRUE, TRUE, "none"), PostLimited(Field(10), NoField)},
   oracleOut |-> {OracleSays(Text4700)},
   oracleRetryOut |-> {OracleSays(Text4700)},
   verifyOut |-> {"success"}]

\* one bot's environment when the claim-status request may throw
StatusEnv ==
  [delays |-> {0},
   statusOut |-> {"throw", "none", "claimed"},
   postOut |-> {PostCreated(TRUE, TRUE, "none"), PostError(500)},
   oracleOut |-> {OracleSays(Text4700)},
   oracleRetryOut |-> {OracleSays(Text4700)},
   verifyOut |-> {"success"}]

\* one bot's environment: every kind of reply, and replies that take time
AttemptEnv ==
  [delays |-> {0, NetDelay},
   statusOut |-> {"claimed", "pending_claim", "none"},
   postOut |-> {PostCreated(id, vr, hint) :
                  id \in BOOLEAN, vr \in BOOLEAN, hint \in {"none", "invalid", "ahead"}}
               \cup {PostLimited(secs, mins) :
                  secs \in {NoField, Field(0), Field(10), Field(90)},
                  mins \in {NoField, Field(5)}}
               \cup {PostError(500)},
   oracleOut |-> {OracleThrows, OracleSays(<<>>), OracleSays(Text4700), OracleSays(TextIdk)},
   oracleRetryOut |-> {OracleSays(Text4700), OracleSays(TextIdk)},
   verifyOut |-> {"success", "rejected"}]

\* the solver's environment: the first reply is any text of at most
\* MaxReplyLen characters over ReplyAlphabet, or one of the sample replies
ReplyAlphabet == {"0", "7", ".", "-", "a", " "}
TextsUpTo(n) == UNION {[1..k -> ReplyAlphabet] : k \in 0..n}
Text47 == <<"4", "7">>
Text47p5 == <<"4", "7", ".", "5">>
TextTheAnswerIs4700 ==
  <<"t", "h", "e", " ", "a", "n", "s", "w", "e", "r", " ", "i", "s", " ",
    "4", "7", ".", "0", "0">>
TextIDontKnow == <<"I", " ", "d", "o", "n", "'", "t", " ", "k", "n", "o", "w">>
Text4p5Then4p25 == <<"4", ".", "5", " ", "o", "r", " ", "4", ".", "2", "5">>
SampleReplies ==
  {Text47, Text47p5, TextTheAnswerIs4700, TextIDontKnow, Text4700, Text4p5Then4p25}

SolverEnv ==
  [delays |-> {0},
   statusOut |-> {"claimed"},
   postOut |-> {PostCreated(TRUE, TRUE, "none")},
   oracleOut |-> {OracleThrows}
                 \cup {OracleSays(r) : r \in TextsUpTo(MaxReplyLen) \cup SampleReplies},
   oracleRetryOut |-> {OracleThrows} \cup {OracleSays(r) : r \in SampleReplies \cup {<<>>}},
   verifyOut |-> {"success", "rejected"}]

-----------------------------------------------------------------------------
(* The locals of one tryMintBot call *)

IdleAttempt ==
  [pc |-> "idle",          \* "idle", "status", "post", "oracle", "verify", "done"
   now |-> 0,              \* line 241
   proxyIdx |-> 0,
   attempt |-> 0,          \* withRetry's attempt index of the request in flight
   resp |-> NoResp,        \* mintResp
   sAttempt |-> 0,         \* solveChallengeWithGPT's attempt index
   raw |-> <<>>,           \* the oracle's latest reply
   nReplies |-> 0,         \* oracle requests that were answered
   answer |-> <<>>,        \* the answer handed to the verify request
   verified |-> FALSE,     \* line 283
   result |-> "none",      \* how the call ended
   nStatus |-> 0, nPost |-> 0, nOracle |-> 0, nVerify |-> 0,  \* requests sent
   tPost |-> 0,            \* Date.now() when the create-post reply arrived
   tDone |-> 0]            \* Date.now() when the call ended

InFlight(a) == a.pc \in {"status", "post", "oracle", "verify"}

RECURSIVE ReadyBots(_, _, _, _)
\* lines 338-346: the ready bots among the first n of the list, in order, each
\* with its proxy index
ReadyBots(status, bots, now, n) ==
  IF n = 0 THEN <<>>
  ELSE LET rest == ReadyBots(status, bots, now, n - 1)
           remaining == getTimeUntilMint(status[bots[n]], now)
       IN IF IsZero(remaining)
          THEN Append(rest, [bot |-> bots[n],
                             proxyIdx |-> IF Len(Proxies) > 0
                                          THEN (n - 1) % Len(Proxies) ELSE 0 - 1])
          ELSE rest

\* records a status file may hold when the process starts: a bot that cools
\* down for one more sleep, and a claimed bot whose rate limit has just run out
CoolingRecord ==
  [DefaultRecord EXCEPT !.claimed = TRUE,
                        !.last_mint_attempt = toISOString(StartTime - MINT_COOLDOWN_MS),
                        !.next_mint_at = toISOString(StartTime + MIN_SLEEP_MS),
                        !.last_post_result = MintOk]
ExpiredRecord ==
  [DefaultRecord EXCEPT !.claimed = TRUE,
                        !.last_mint_attempt = toISOString(StartTime - MIN_SLEEP_MS),
                        !.next_mint_at = toISOString(StartTime),
                        !.last_post_result = MintRateLimit(1)]

InitialFiles ==
  {FileAbsent, FileGarbage, FileNull}
    \cup {FileOf(st) : st \in [Bots -> {NoRecord, CoolingRecord, ExpiredRecord}]}

\* the auto-mint process before main() runs
InitMint(files, lists, keys) ==
  /\ clock = StartTime
  /\ disk \in files
  /\ accounts \in lists
  /\ apiKeySet \in keys
  /\ mpc = "init"
  /\ lpc = "idle"
  /\ mem = EmptyStatus
  /\ ready = <<>>
  /\ idx = 0
  /\ att = [b \in Bots |-> IdleAttempt]
  /\ sleepUntil = 0
  /\ ticks = 0
  /\ tickTime = 0
  /\ preTick = EmptyStatus
  /\ processed = <<>>
  /\ outcome = EmptyStatus
  /\ started = <<>>

InitWith(files, lists, keys) ==
  /\ InitMint(files, lists, keys)
  /\ call = NoCall
  /\ lnk = LinkOff

Init == InitWith(InitialFiles, {<<"Alpha", "Beta">>}, {TRUE})

-----------------------------------------------------------------------------
(* main and checkLoop *)

\* lines 390-403: main loads the status and walks the account list;
\* initBotStatus on a null status throws, main() rejects, line 430 exits
MainInit ==
  /\ mpc = "init"
  /\ mpc' = IF LoadsNull(disk) /\ Len(accounts) > 0 THEN "fatal" ELSE "call_loop"
  /\ UNCHANGED <<clock, disk, accounts, apiKeySet, aux, lpc, mem, ready, idx, att,
                 sleepUntil, ticks, tickTime, preTick, processed, outcome, started>>

\* lines 330-359, up to the first await: load, partition, quiet tick or start of the loop
CheckLoopStart ==
  /\ mpc = "call_loop"
  /\ lpc = "idle"
  /\ ticks < MaxTicks
  /\ ticks' = ticks + 1
  /\ tickTime' = clock
  /\ processed' = <<>>
  /\ started' = <<>>
  /\ IF LoadsNull(disk) /\ Len(accounts) > 0
     THEN \* initBotStatus throws on null; main's catch (line 409) logs it
          /\ mpc' = "calc_sleep"
          /\ preTick' = EmptyStatus
          /\ ready' = <<>>
          /\ UNCHANGED <<lpc, mem, idx>>
     ELSE LET status == InitAll(loadStatus(disk), accounts, Len(accounts))
              rs == ReadyBots(status, accounts, clock, Len(accounts))
          IN /\ mem' = status
             /\ preTick' = status
             /\ ready' = rs
             /\ idx' = 0
             /\ IF rs = <<>>
                THEN mpc' = "calc_sleep" /\ lpc' = "idle"
                ELSE mpc' = "in_loop" /\ lpc' = "loop"
  /\ UNCHANGED <<clock, disk, accounts, apiKeySet, aux, att, sleepUntil, outcome>>


PreviousAttemptReturned_NoAwait == TRUE

\* line 362: `await tryMintBot(...)`: the loop goes on only when the call has returned
PreviousAttemptReturned == \A c \in Bots : ~InFlight(att[c])

PersistAfterBot_AtEndOfLoop(file, status, last) ==
  IF last THEN saveStatus(status) ELSE file

\* line 364: saveStatus(status) after each bot (last: it was the final ready bot)
PersistAfterBot(file, status, last) == saveStatus(status)

\* tryMintBot returned (a: its locals at that point): line 364 saves, the loop goes on
Returned(b, a, status, res, t) ==
  /\ mem' = status
  /\ disk' = PersistAfterBot(disk, status, Len(processed) + 1 = Len(ready))
  /\ att' = [att EXCEPT ![b] = [a EXCEPT !.pc = "done", !.result = res, !.tDone = t]]
  /\ processed' = Append(processed, b)
  /\ outcome' = [outcome EXCEPT ![b] = status[b]]
  /\ UNCHANGED <<accounts, apiKeySet, aux, mpc, lpc, ready, idx, sleepUntil, ticks,
                 tickTime, preTick, started>>

AfterThrow_Uncaught(b, a, status, t) ==
  /\ mem' = status
  /\ att' = [att EXCEPT ![b] = [a EXCEPT !.pc = "done", !.result = "threw", !.tDone = t]]
  /\ processed' = Append(processed, b)
  /\ outcome' = [outcome EXCEPT ![b] = status[b]]
  /\ lpc' = "idle"
  /\ mpc' = "calc_sleep"
  /\ UNCHANGED <<disk, accounts, apiKeySet, aux, ready, idx, sleepUntil, ticks,
                 tickTime, preTick, started>>

\* line 363: tryMintBot threw: the catch logs the error and the loop body goes on
AfterThrow(b, a, status, t) == Returned(b, a, status, "threw", t)

\* the request in flight stays the same or changes; nothing else does
OnlyAttempt(b, a) ==
  /\ att' = [att EXCEPT ![b] = a]
  /\ UNCHANGED <<disk, accounts, apiKeySet, aux, mpc, lpc, mem, ready, idx, sleepUntil,
                 ticks, tickTime, preTick, processed, outcome, started>>

\* lines 361-362 and 240-256: the loop takes the next ready bot and calls
\* tryMintBot, which runs up to its first await (the claim-status request)
StartAttempt ==
  /\ lpc = "loop"
  /\ idx < Len(ready)
  /\ PreviousAttemptReturned
  /\ LET b == ready[idx + 1].bot
         status == initBotStatus(mem, b)
         remaining == getTimeUntilMint(status[b], clock)
         a == [IdleAttempt EXCEPT !.now = clock, !.proxyIdx = ready[idx + 1].proxyIdx]
     IN /\ idx' = idx + 1
        /\ started' = Append(started, b)
        /\ IF IsPositive(remaining)
           THEN \* line 246
                /\ mem' = status
                /\ disk' = PersistAfterBot(disk, status, Len(processed) + 1 = Len(ready))
                /\ att' = [att EXCEPT ![b] = [a EXCEPT !.pc = "done",
                                                       !.result = "not_ready",
                                                       !.tDone = clock]]
                /\ processed' = Append(processed, b)
                /\ outcome' = [outcome EXCEPT ![b] = status[b]]
           ELSE /\ mem' = status
                /\ att' = [att EXCEPT ![b] = [a EXCEPT !.pc = "status", !.nStatus = 1]]
                /\ UNCHANGED <<disk, processed, outcome>>
  /\ UNCHANGED <<clock, accounts, apiKeySet, aux, mpc, lpc, ready, sleepUntil, ticks,
                 tickTime, preTick>>

\* the mutation waits the same time before every retry
RetryWait_Constant(attempt) == RETRY_DELAY_MS

\* withRetry, line 756: the wait before the request is sent again
RetryWait(attempt) == RETRY_DELAY_MS * (attempt + 1)

\* lines 256-263 and 776-788: the claim-status request ends
StatusReply(b, E) ==
  /\ att[b].pc = "status"
  /\ \E d \in E.delays, o \in E.statusOut :
       LET a == att[b]
           apiStatus == IF o = "throw" THEN "none" ELSE o
           status == [mem EXCEPT ![b] = RecordAfterStatus(@, apiStatus, a.now)]
       IN IF o = "throw" /\ a.attempt < RETRIES
          THEN \* withRetry waits and sends the request again
               /\ clock' = clock + d + RetryWait(a.attempt)
               /\ OnlyAttempt(b, [a EXCEPT !.attempt = @ + 1, !.nStatus = @ + 1])
          ELSE /\ clock' = clock + d
               /\ IF apiStatus = "none"
                  THEN \* line 259 (checkClaimStatus returned null)
                       Returned(b, a, status, "status_failed", clock')
                  ELSE IF ~status[b].claimed
                  THEN \* line 263
                       Returned(b, a, status, "unclaimed", clock')
                  ELSE \* line 273: createPost sends its first request
                       /\ mem' = status
                       /\ att' = [att EXCEPT ![b] =
                                    [a EXCEPT !.pc = "post", !.attempt = 0, !.nPost = 1]]
                       /\ UNCHANGED <<disk, accounts, apiKeySet, aux, mpc, lpc, ready, idx,
                                      sleepUntil, ticks, tickTime, preTick,
                                      processed, outcome, started>>

\* the mutation writes the success into every record
FinishSuccess_EveryBot(b, a, verified, t) ==
  Returned(b, [a EXCEPT !.verified = verified],
           [c \in Bots |-> RecordAfterSuccess(mem[c], a.resp, verified, a.now, t)],
           "ok", t)

\* lines 295-310 after verifyPost (or without it): the 2xx branch ends
FinishSuccess(b, a, verified, t) ==
  Returned(b, [a EXCEPT !.verified = verified],
           [mem EXCEPT ![b] = RecordAfterSuccess(@, a.resp, verified, a.now, t)],
           "ok", t)

\* lines 273-327 and 790-799: the create-post request ends
PostReply(b, E) ==
  /\ att[b].pc = "post"
  /\ \E d \in E.delays, o \in E.postOut :
       LET t == clock + d
           json == PostResponse(o, t)
           a == [att[b] EXCEPT !.resp = json, !.tPost = t]
       IN IF o.statusCode < 0
          THEN IF att[b].attempt < RETRIES
               THEN \* withRetry waits and sends the request again
                    /\ clock' = t + RetryWait(att[b].attempt)
                    /\ OnlyAttempt(b, [att[b] EXCEPT !.attempt = @ + 1, !.nPost = @ + 1])
               ELSE \* withRetry rethrows, tryMintBot rejects
                    /\ clock' = t
                    /\ AfterThrow(b, att[b], mem, t)
          ELSE /\ clock' = t
               /\ IF json.statusCode >= 200 /\ json.statusCode < 300
                  THEN IF json.verification_required /\ apiKeySet
                       THEN \* verifyPost calls the solver, which sends its first request
                            OnlyAttempt(b, [a EXCEPT !.pc = "oracle", !.sAttempt = 0,
                                                     !.nOracle = 1])
                       ELSE \* no verification, or verifyPost returns null (line 803)
                            FinishSuccess(b, a, FALSE, t)
                  ELSE IF json.statusCode = 429
                  THEN Returned(b, a,
                                [mem EXCEPT ![b] = RecordAfterRateLimit(@, json, a.now, t)],
                                "rate_limited", t)
                  ELSE Returned(b, a, [mem EXCEPT ![b] = RecordAfterFailure(@, json)],
                                "failed", t)

\* the mutation gives up after the first reply
SolverGoesOn_Never(attempt) == FALSE
SolverGoesOn_OneMore(attempt) == attempt < SOLVER_ATTEMPTS

\* line 895: the for loop has another round after this attempt
SolverGoesOn(attempt) == attempt + 1 < SOLVER_ATTEMPTS

\* lines 906-912: the request of an attempt: its instruction, and its
\* temperature in tenths (attempt * 0.3)
OracleRequest(attempt) ==
  [instruction |-> IF attempt = 0 THEN "solve" ELSE "corrective",
   temperature |-> attempt * 3]

\* lines 812-814, 831-833 and 895-925: one request of solveChallengeWithGPT
\* ends.  The request is not wrapped in withRetry; an error of the solver is
\* caught by verifyPost, which returns null.
OracleReply(b, E) ==
  /\ att[b].pc = "oracle"
  /\ \E d \in E.delays,
        o \in (IF att[b].sAttempt = 0 THEN E.oracleOut ELSE E.oracleRetryOut) :
       LET t == clock + d
           a == [att[b] EXCEPT !.raw = IF o.err THEN @ ELSE o.content,
                               !.nReplies = IF o.err THEN @ ELSE @ + 1]
           answer == parseAnswer(o.content)
       IN /\ clock' = t
          /\ IF o.err \/ o.content = <<>>
             THEN \* httpRequest rejected, or line 917: no content
                  FinishSuccess(b, a, FALSE, t)
             ELSE IF answer # NoAnswer
             THEN \* line 920; verifyPost sends the verify request
                  OnlyAttempt(b, [a EXCEPT !.pc = "verify", !.answer = answer,
                                           !.attempt = 0, !.nVerify = 1])
             ELSE IF SolverGoesOn(a.sAttempt)
             THEN \* line 922: the loop sends the corrective request
                  OnlyAttempt(b, [a EXCEPT !.sAttempt = @ + 1, !.nOracle = @ + 1])
             ELSE \* line 925
                  FinishSuccess(b, a, FALSE, t)

\* lines 816-834 and 287-292: the verify request ends
VerifyReply(b, E) ==
  /\ att[b].pc = "verify"
  /\ \E d \in E.delays, o \in E.verifyOut :
       LET a == att[b]
       IN IF o = "throw" /\ a.attempt < RETRIES
          THEN /\ clock' = clock + d + RetryWait(a.attempt)
               /\ OnlyAttempt(b, [a EXCEPT !.attempt = @ + 1, !.nVerify = @ + 1])
          ELSE \* a reply, or the last attempt threw and verifyPost returns null
               /\ clock' = clock + d
               /\ FinishSuccess(b, a, o = "success", clock')

\* lines 365-375: every ready bot was processed; checkLoop returns
CheckLoopEnd ==
  /\ lpc = "loop"
  /\ idx = Len(ready)
  /\ PreviousAttemptReturned
  /\ lpc' = "idle"
  /\ mpc' = "calc_sleep"
  /\ UNCHANGED <<clock, disk, accounts, apiKeySet, aux, mem, ready, idx, att, sleepUntil,
                 ticks, tickTime, preTick, processed, outcome, started>>

Min(x, y) == IF x < y THEN x ELSE y
Max(x, y) == IF x > y THEN x ELSE y

RECURSIVE NearestMs(_, _, _, _, _)
\* lines 415-421: the loop over the account list from position i on, with its break
NearestMs(st, bots, now, i, nearestMs) ==
  IF i > Len(bots) THEN nearestMs
  ELSE LET rem == getTimeUntilMint(initBotStatus(st, bots[i])[bots[i]], now)
       IN IF IsZero(rem) THEN MIN_SLEEP_MS
          ELSE NearestMs(st, bots, now, i + 1,
                         IF IsPositive(rem) /\ rem.ms < nearestMs THEN rem.ms
                         ELSE nearestMs)

SleepMs_NoFloor(file, bots, now) ==
  Min(NearestMs(loadStatus(file), bots, now, 1, CHECK_INTERVAL_MS), CHECK_INTERVAL_MS)

\* lines 414-422
SleepMs(file, bots, now) ==
  Max(MIN_SLEEP_MS,
      Min(NearestMs(loadStatus(file), bots, now, 1, CHECK_INTERVAL_MS),
          CHECK_INTERVAL_MS))

\* lines 413-423: after checkLoop, main reloads the status and sets the timer;
\* initBotStatus on a null status throws outside the try, main() rejects and
\* line 430 exits the process
SleepCalc ==
  /\ mpc = "calc_sleep"
  /\ IF LoadsNull(disk) /\ Len(accounts) > 0
     THEN mpc' = "fatal" /\ UNCHANGED sleepUntil
     ELSE mpc' = "sleeping" /\ sleepUntil' = clock + SleepMs(disk, accounts, clock)
  /\ UNCHANGED <<clock, disk, accounts, apiKeySet, aux, lpc, mem, ready, idx, att, ticks,
                 tickTime, preTick, processed, outcome, started>>

\* line 423: the timer fires and the while loop goes round
Wake ==
  /\ mpc = "sleeping"
  /\ ticks < MaxTicks
  /\ clock' = Max(clock, sleepUntil)
  /\ mpc' = "call_loop"
  /\ UNCHANGED <<disk, accounts, apiKeySet, aux, lpc, mem, ready, idx, att, sleepUntil,
                 ticks, tickTime, preTick, processed, outcome, started>>

\* The process is killed while a tick runs: everything but the status file
\* is lost.  (ready is kept as last written, for the record of which bots the
\* tick had selected.)
Crash ==
  /\ mpc = "in_loop"
  /\ mpc' = "crashed"
  /\ lpc' = "idle"
  /\ mem' = EmptyStatus
  /\ idx' = 0
  /\ att' = [b \in Bots |-> IdleAttempt]
  /\ sleepUntil' = 0
  /\ UNCHANGED <<clock, disk, accounts, apiKeySet, aux, ready, ticks, tickTime, preTick,
                 processed, outcome, started>>

\* the process is started again
Restart ==
  /\ mpc = "crashed"
  /\ mpc' = "init"
  /\ UNCHANGED <<clock, disk, accounts, apiKeySet, aux, lpc, mem, ready, idx, att,
                 sleepUntil, ticks, tickTime, preTick, processed, outcome, started>>

Step(E) ==
  \/ MainInit
  \/ CheckLoopStart
  \/ StartAttempt
  \/ \E b \in Bots : StatusReply(b, E)
  \/ \E b \in Bots : PostReply(b, E)
  \/ \E b \in Bots : OracleReply(b, E)
  \/ \E b \in Bots : VerifyReply(b, E)
  \/ CheckLoopEnd
  \/ SleepCalc
  \/ Wake

\* the scheduler with two bots, and crashes
Next == Step(SchedEnv) \/ Crash \/ Restart

Spec == Init /\ [][Next]_vars

\* one bot, every kind of reply
InitAttempt == InitWith(InitialFiles, {<<"Alpha">>}, BOOLEAN)
NextAttempt == Step(AttemptEnv)
SpecAttempt == InitAttempt /\ [][NextAttempt]_vars


\* the solver: one bot whose create-post was answered 201 with a challenge
InitSolver ==
  LET json == PostResponse(PostCreated(TRUE, TRUE, "none"), StartTime)
      status == [EmptyStatus EXCEPT !["Alpha"] =
                   RecordAfterStatus(DefaultRecord, "claimed", StartTime)]
  IN /\ clock = StartTime
     /\ disk = FileAbsent
     /\ accounts = <<"Alpha">>
     /\ call = NoCall
     /\ lnk = LinkOff
     /\ apiKeySet = TRUE
     /\ mpc = "in_loop"
     /\ lpc = "loop"
     /\ mem = status
     /\ ready = <<[bot |-> "Alpha", proxyIdx |-> 0]>>
     /\ idx = 1
     /\ att = [b \in Bots |->
                 IF b = "Alpha"
                 THEN [IdleAttempt EXCEPT !.pc = "oracle", !.now = StartTime,
                                          !.resp = json, !.tPost = StartTime,
                                          !.nStatus = 1, !.nPost = 1, !.nOracle = 1]
                 ELSE IdleAttempt]
     /\ sleepUntil = 0
     /\ ticks = 1
     /\ tickTime = StartTime
     /\ preTick = InitAll(EmptyStatus, <<"Alpha">>, 1)
     /\ processed = <<>>
     /\ outcome = EmptyStatus
     /\ started = <<"Alpha">>

NextSolver ==
  \/ \E b \in Bots : OracleReply(b, SolverEnv)
  \/ \E b \in Bots : VerifyReply(b, SolverEnv)

SpecSolver == InitSolver /\ [][NextSolver]_vars

\* InitSolver is a state the scheduler reaches
SolverStartReached ==
  \E b \in Bots : /\ att[b].pc = "oracle"
                  /\ att[b].nOracle = 1
                  /\ att[b].resp = PostResponse(PostCreated(TRUE, TRUE, "none"), StartTime)
                  /\ mem[b] = RecordAfterStatus(DefaultRecord, "claimed", StartTime)
                  /\ disk = FileAbsent /\ clock = StartTime /\ ticks = 1
                  /\ processed = <<>> /\ started = <<b>> /\ idx = 1


-----------------------------------------------------------------------------
(* The scheduler's properties *)

SeqToSet(q) == {q[i] : i \in 1..Len(q)}
BotsOf(rs) == [i \in 1..Len(rs) |-> rs[i].bot]
AccountSet == SeqToSet(accounts)
\* what a process that starts now would see as the status of the account list
Reloaded == InitAll(loadStatus(disk), accounts, Len(accounts))
\* a tick has loaded and partitioned the account list
TickRan == ticks > 0
\* bot b's tryMintBot call of the running/last tick has ended
Ended(b) == att[b].pc = "done" /\ b \in SeqToSet(processed)

\* C1: at every tick, a bot whose stored next_mint_at is later than the time
\* of the tick is not in the ready set and no create-post request is sent for
\* it in that tick; a bot whose next_mint_at is at or before that time is in
\* the ready set.
C1_ReadinessMonotonicity ==
  TickRan =>
    \A b \in AccountSet :
      LET nextMintAt == preTick[b].next_mint_at
      IN nextMintAt.k = "iso" =>
           /\ nextMintAt.ms > tickTime =>
                /\ b \notin SeqToSet(BotsOf(ready))
                /\ b \notin SeqToSet(started)
                /\ ~InFlight(att[b])
           /\ nextMintAt.ms <= tickTime => b \in SeqToSet(BotsOf(ready))

\* a tick in which one bot is cooling down and left out while a bot whose
\* next_mint_at has passed is being posted for
C1_Witness ==
  /\ lpc = "loop"
  /\ \E b, c \in AccountSet :
       /\ preTick[b].next_mint_at.k = "iso" /\ preTick[b].next_mint_at.ms > tickTime
       /\ b \notin SeqToSet(BotsOf(ready))
       /\ preTick[c].next_mint_at.k = "iso" /\ preTick[c].next_mint_at.ms <= tickTime
       /\ c \in SeqToSet(BotsOf(ready))
       /\ att[c].pc = "post"

\* C2: while a tick runs, and after a crash at any point of it, the status
\* file holds the post-attempt record of every bot whose attempt has returned
\* and the pre-tick record of every other bot.
C2_CrashSafety ==
  (TickRan /\ mpc \in {"in_loop", "crashed"}) =>
    \A b \in AccountSet :
      /\ b \in SeqToSet(processed) => Reloaded[b] = outcome[b]
      /\ b \notin SeqToSet(processed) => Reloaded[b] = preTick[b]

\* a crash after the first of two ready bots was processed, with a changed
\* record, and before the second began
C2_Witness ==
  /\ mpc = "crashed"
  /\ Len(ready) = 2
  /\ processed = <<ready[1].bot>>
  /\ started = processed
  /\ outcome[ready[1].bot] # preTick[ready[1].bot]
  /\ Reloaded[ready[1].bot] = outcome[ready[1].bot]

\* C3: when create-post is answered 429 with retry_after_seconds = s > 0, the
\* bot's next_mint_at becomes the time the reply was handled plus s seconds,
\* whatever its record held before.
C3_RateLimitOverride ==
  \A b \in Bots :
    (/\ Ended(b)
     /\ att[b].resp.statusCode = 429
     /\ att[b].resp.retry_after_seconds.has
     /\ att[b].resp.retry_after_seconds.v > 0) =>
      outcome[b].next_mint_at =
        toISOString(att[b].tPost + att[b].resp.retry_after_seconds.v * 1000)

\* a 429 with retry_after_seconds = 90 and retry_after_minutes = 5, for a bot
\* whose record held an earlier next_mint_at, handled after the reply took time
C3_Witness ==
  \E b \in Bots :
    /\ Ended(b)
    /\ att[b].resp.statusCode = 429
    /\ att[b].resp.retry_after_seconds = Field(90)
    /\ att[b].resp.retry_after_minutes = Field(5)
    /\ preTick[b].next_mint_at.k = "iso"
    /\ att[b].tPost > att[b].now
    /\ outcome[b].next_mint_at = toISOString(att[b].tPost + 90000)

\* a bot with no prior status was answered "claimed" and then 2xx with no
\* verification and no next-mint hint
PlainSuccess(b) ==
  /\ Ended(b)
  /\ att[b].result = "ok"
  /\ preTick[b] = DefaultRecord
  /\ ~att[b].resp.verification_required
  /\ ~Truthy(att[b].resp.next_mint_at)

\* C4 as claimed: after such an attempt last_mint_attempt is the tick time,
\* next_mint_at is that same time plus the default cooldown, and
\* last_post_result is "mint_ok".
C4_AsClaimed ==
  \A b \in Bots :
    PlainSuccess(b) =>
      /\ outcome[b].last_mint_attempt = toISOString(att[b].now)
      /\ outcome[b].next_mint_at = toISOString(att[b].now + MINT_COOLDOWN_MS)
      /\ outcome[b].last_post_result = MintOk

\* C4 amended: after such an attempt last_mint_attempt is the time the attempt
\* began, next_mint_at is the time the create-post reply was handled plus the
\* default cooldown (so at least last_mint_attempt plus the cooldown), and
\* last_post_result is "mint_ok".
C4_SuccessReschedule ==
  \A b \in Bots :
    PlainSuccess(b) =>
      /\ outcome[b].last_mint_attempt = toISOString(att[b].now)
      /\ outcome[b].next_mint_at = toISOString(att[b].tPost + MINT_COOLDOWN_MS)
      /\ att[b].tPost >= att[b].now
      /\ outcome[b].last_post_result = MintOk

\* such an attempt whose create-post reply took time
C4_Witness ==
  \E b \in Bots :
    /\ PlainSuccess(b)
    /\ att[b].tPost > att[b].now
    /\ outcome[b].next_mint_at = toISOString(att[b].tPost + MINT_COOLDOWN_MS)

\* C5 as claimed: when the claim status is not "claimed", no create-post
\* request is sent and every field but last_status_check is unchanged.
C5_AsClaimed ==
  \A b \in Bots :
    (Ended(b) /\ att[b].result = "unclaimed") =>
      /\ att[b].nPost = 0
      /\ outcome[b] = [preTick[b] EXCEPT !.last_status_check = toISOString(att[b].now)]

\* C5 amended: when the claim status is not "claimed", no create-post request
\* is sent, last_status_check becomes the attempt's start, claimed becomes
\* false, every other field is unchanged, and the bot is ready at the next tick.
C5_Unclaimed ==
  \A b \in Bots :
    (att[b].pc = "done" /\ att[b].result = "unclaimed") =>
      /\ att[b].nPost = 0
      /\ Ended(b) =>
           outcome[b] = [preTick[b] EXCEPT !.last_status_check = toISOString(att[b].now),
                                           !.claimed = FALSE]
      /\ IsZero(getTimeUntilMint(outcome[b], clock))
      /\ (tickTime > att[b].tDone /\ b \in AccountSet) => b \in SeqToSet(BotsOf(ready))

\* a bot recorded as claimed was reported unclaimed, its record lost the
\* flag and kept its timers, and the next tick selected it again
C5_Witness ==
  \E b \in Bots :
    /\ att[b].pc = "done" /\ att[b].result = "unclaimed"
    /\ outcome[b] = [ExpiredRecord EXCEPT !.last_status_check = toISOString(att[b].now),
                                          !.claimed = FALSE]
    /\ ExpiredRecord.claimed
    /\ tickTime > att[b].tDone
    /\ b \in SeqToSet(BotsOf(ready))

\* C6: after a 429 reply the delay used is retry_after_seconds when the body
\* has that field, else retry_after_minutes * 60 when it has that field, else
\* 1800 seconds; next_mint_at is the time the reply was handled plus that
\* delay and last_post_result is a rate-limit result.
C6_RetryDelaySelection ==
  \A b \in Bots :
    (Ended(b) /\ att[b].resp.statusCode = 429) =>
      LET json == att[b].resp
          delay == IF json.retry_after_seconds.has THEN json.retry_after_seconds.v
                   ELSE IF json.retry_after_minutes.has
                   THEN json.retry_after_minutes.v * 60
                   ELSE 1800
      IN /\ outcome[b].next_mint_at = toISOString(att[b].tPost + delay * 1000)
         /\ outcome[b].last_post_result.tag = "mint_rate_limit"

\* C7: when a tick's loop has ended, the attempt of every ready bot was
\* started, in the order of the ready set, also when an earlier attempt threw;
\* while the loop runs the started bots are a prefix of the ready set; an
\* attempt that threw does not end the process.
C7_ErrorIsolation ==
  /\ (TickRan /\ mpc \in {"calc_sleep", "sleeping"}) => started = BotsOf(ready)
  /\ mpc = "in_loop" => started = SubSeq(BotsOf(ready), 1, Len(started))
  /\ (\E b \in Bots : att[b].result = "threw") => mpc # "fatal"

\* the first of two ready bots threw, the second was attempted, the tick ended
C7_Witness ==
  /\ mpc = "calc_sleep"
  /\ Len(ready) = 2
  /\ att[ready[1].bot].result = "threw"
  /\ att[ready[2].bot].pc = "done"
  /\ att[ready[2].bot].nStatus > 0
  /\ started = BotsOf(ready)

\* C8: at most one bot's attempt is in flight, and only inside checkLoop; a
\* checkLoop starts only when no checkLoop runs, no attempt is in flight and
\* the inter-tick timer has run out.
C8_Sequential ==
  /\ [](/\ Cardinality({b \in Bots : InFlight(att[b])}) <= 1
        /\ (\E b \in Bots : InFlight(att[b])) => (lpc = "loop" /\ mpc = "in_loop"))
  /\ [][ticks' # ticks =>
          /\ lpc = "idle"
          /\ \A b \in Bots : ~InFlight(att[b])
          /\ clock >= sleepUntil
          /\ (sleepUntil > 0 => clock >= tickTime + MIN_SLEEP_MS)]_vars

\* in the second tick, after the sleep, the first ready bot's attempt has
\* returned and the second one's is in flight
C8_Witness ==
  /\ ticks = 2
  /\ sleepUntil > 0
  /\ Len(processed) = 1
  /\ \E b \in Bots : InFlight(att[b]) /\ b # processed[1]

\* C9: whatever the status file holds when it is loaded, the process does not
\* terminate because of it.
C9_StatusTolerance == mpc # "fatal"

-----------------------------------------------------------------------------
(* Answer coercion, stated on the text rather than by scanning it *)

IsDigits(w) == Len(w) >= 1 /\ \A k \in 1..Len(w) : IsDigit(w[k])
Unsigned(w) == IF w # <<>> /\ w[1] = "-" THEN Tail(w) ELSE w
\* digits "." digits, the fraction of n digits (n = 0: of any length >= 1)
IsDecimalText(w, n) ==
  \E k \in 2..(Len(w) - 1) :
    /\ w[k] = "."
    /\ IsDigits(SubSeq(w, 1, k - 1))
    /\ IsDigits(SubSeq(w, k + 1, Len(w)))
    /\ (n = 0 \/ Len(w) - k = n)
EndsAtBoundary(s, j) == j = Len(s) \/ ~IsWord(s[j + 1])

ExactTokens(s) ==
  {ij \in (1..Len(s)) \X (1..Len(s)) :
     /\ ij[1] <= ij[2]
     /\ IsDecimalText(Unsigned(SubSeq(s, ij[1], ij[2])), 2)
     /\ EndsAtBoundary(s, ij[2])}
DecimalTokens(s) ==
  {ij \in (1..Len(s)) \X (1..Len(s)) :
     ij[1] <= ij[2] /\ IsDecimalText(Unsigned(SubSeq(s, ij[1], ij[2])), 0)}
IntegerTokens(s) ==
  {ij \in (1..Len(s)) \X (1..Len(s)) :
     ij[1] <= ij[2] /\ IsDigits(Unsigned(SubSeq(s, ij[1], ij[2])))}

\* the first token: the leftmost start, and from there the longest
FirstToken(s, tokens) ==
  LET ij == CHOOSE x \in tokens :
              \A y \in tokens : x[1] < y[1] \/ (x[1] = y[1] /\ x[2] >= y[2])
  IN SubSeq(s, ij[1], ij[2])

ExpectedAnswer(raw) ==
  LET s == Trim(raw)
  IN IF ExactTokens(s) # {} THEN FirstToken(s, ExactTokens(s))
     ELSE IF DecimalTokens(s) # {} THEN ToFixed2(FirstToken(s, DecimalTokens(s)))
     ELSE IF IntegerTokens(s) # {} THEN ToFixed2(FirstToken(s, IntegerTokens(s)))
     ELSE NoAnswer

\* the oracle's reply has been read by the solver
ReplyRead(a) == a.raw # <<>> /\ a.pc \in {"oracle", "verify", "done"}

\* C10: the answer handed to the verify request is the reply's first token
\* -?digits.dd if it has one, else its first decimal number written with two
\* fractional digits, else its first integer written with two fractional
\* digits; "47" gives "47.00", "47.5" gives "47.50", "the answer is 47.00"
\* gives "47.00"; a reply without a number ("I don't know") gives no answer,
\* and then exactly one further oracle request is sent: the second request is
\* the last one.
C10_AnswerCoercion ==
  \A b \in Bots :
    LET a == att[b]
    IN /\ a.nOracle <= SOLVER_ATTEMPTS
       /\ ReplyRead(a) =>
            /\ a.pc = "verify" => a.answer = ExpectedAnswer(a.raw)
            /\ a.pc = "verify" <=> (ExpectedAnswer(a.raw) # NoAnswer /\ a.result = "none")
            /\ ExpectedAnswer(a.raw) = NoAnswer =>
                 /\ a.nOracle = SOLVER_ATTEMPTS
                 /\ a.pc = "oracle" => a.sAttempt = 1
            /\ (a.pc = "verify" /\ a.raw = Text47) => a.answer = Text4700
            /\ (a.pc = "verify" /\ a.raw = Text47p5) =>
                 a.answer = <<"4", "7", ".", "5", "0">>
            /\ (a.pc = "verify" /\ a.raw = TextTheAnswerIs4700) => a.answer = Text4700
            /\ a.raw = TextIDontKnow => a.pc # "verify"

\* a reply without a number was read and the corrective request is in flight
C10_Witness ==
  \E b \in Bots :
    /\ att[b].pc = "oracle" /\ att[b].raw = TextIDontKnow
    /\ att[b].sAttempt = 1 /\ att[b].nOracle = 2

-----------------------------------------------------------------------------
(* deobfuscate (mint.js 839-849), applied on its own *)

\* the characters of challenge texts: letters of both cases, a digit, a
\* blank, allowed punctuation, a decoration character, and the underscore
\* (a word character for \b that step 1 removes)
TextAlphabet == {"u", "m", "M", "1", " ", ".", "*", "_"}
IsLowerLetter(c) == c \in {"u", "m"}
IsUpperLetter(c) == c = "M"
toLowerCase(c) == IF c = "M" THEN "m" ELSE c
\* [a-zA-Z0-9\s.,?!]
IsKept(c) == IsLowerLetter(c) \/ IsUpperLetter(c) \/ c \in {"1", " ", ".", ",", "?", "!"}
\* \w, for the \b of step 4
IsWordChar(c) == IsLowerLetter(c) \/ IsUpperLetter(c) \/ c \in {"1", "_"}

\* step 1: text.replace(/[^a-zA-Z0-9\s.,?!]/g, " ")
StripDecoration(t) == [i \in 1..Len(t) |-> IF IsKept(t[i]) THEN t[i] ELSE " "]

\* .replace(/\s+/g, " "): every run of blanks becomes one blank
RECURSIVE CollapseBlanks(_)
CollapseBlanks(t) ==
  IF Len(t) = 0 THEN t
  ELSE IF Len(t) >= 2 /\ t[1] = " " /\ t[2] = " " THEN CollapseBlanks(Tail(t))
  ELSE <<t[1]>> \o CollapseBlanks(Tail(t))

\* .trim()
RECURSIVE TrimBlanksLeft(_)
TrimBlanksLeft(t) == IF Len(t) > 0 /\ t[1] = " " THEN TrimBlanksLeft(Tail(t)) ELSE t
RECURSIVE TrimBlanksRight(_)
TrimBlanksRight(t) ==
  IF Len(t) > 0 /\ t[Len(t)] = " " THEN TrimBlanksRight(SubSeq(t, 1, Len(t) - 1)) ELSE t
TrimBlanks(t) == TrimBlanksRight(TrimBlanksLeft(t))

\* step 2: .replace(/\s+/g, " ").toLowerCase().trim()
NormalizeBlanks(t) ==
  LET c == CollapseBlanks(t)
  IN TrimBlanks([i \in 1..Len(c) |-> toLowerCase(c[i])])

\* step 3: .replace(/([a-z])\1+/g, "$1")
RECURSIVE CollapseLetters(_)
CollapseLetters(t) ==
  IF Len(t) = 0 THEN t
  ELSE IF Len(t) >= 2 /\ IsLowerLetter(t[1]) /\ t[2] = t[1] THEN CollapseLetters(Tail(t))
  ELSE <<t[1]>> \o CollapseLetters(Tail(t))

\* the end (exclusive) of the run of "m" that starts at position i
RECURSIVE RunOfMEnd(_, _)
RunOfMEnd(t, i) == IF i <= Len(t) /\ t[i] = "m" THEN RunOfMEnd(t, i + 1) ELSE i

\* /\b(um+)\b/ at position i: the position after the match, or 0.  "m+" is
\* greedy and a shorter run of m never ends at a word boundary, so the
\* match is the whole run or nothing.
FillerEnd(t, i) ==
  LET j == RunOfMEnd(t, i + 1)
  IN IF /\ t[i] = "u"
        /\ (i = 1 \/ ~IsWordChar(t[i - 1]))
        /\ j > i + 1
        /\ (j > Len(t) \/ ~IsWordChar(t[j]))
     THEN j ELSE 0

\* .replace(/\b(um+)\b/g, ""), scanning from position i
RECURSIVE RemoveFillerFrom(_, _)
RemoveFillerFrom(t, i) ==
  IF i > Len(t) THEN <<>>
  ELSE IF FillerEnd(t, i) # 0 THEN RemoveFillerFrom(t, FillerEnd(t, i))
  ELSE <<t[i]>> \o RemoveFillerFrom(t, i + 1)

\* step 4: .replace(/\b(um+)\b/g, "").replace(/\s+/g, " ").trim()
RemoveFiller(t) == TrimBlanks(CollapseBlanks(RemoveFillerFrom(t, 1)))

deobfuscate_NoFinalTrim(text) ==
  RemoveFillerFrom(CollapseLetters(NormalizeBlanks(StripDecoration(text))), 1)

deobfuscate(text) ==
  RemoveFiller(CollapseLetters(NormalizeBlanks(StripDecoration(text))))

ChallengeTexts == UNION {[1..n -> TextAlphabet] : n \in 0..MaxTextLen}

\* a challenge text is chosen
InitText ==
  /\ InitMint({FileAbsent}, {<<>>}, {TRUE})
  /\ call \in {[fn |-> "deobfuscate", text |-> t, out |-> <<>>] : t \in ChallengeTexts}
  /\ lnk = LinkOff

\* deobfuscate is applied to the text, and then to its own result
ApplyDeobfuscate ==
  /\ call.fn = "deobfuscate"
  /\ Len(call.out) < 2
  /\ call' = [call EXCEPT !.out =
                Append(@, deobfuscate(IF @ = <<>> THEN call.text ELSE @[Len(@)]))]
  /\ UNCHANGED <<clock, disk, accounts, apiKeySet, mpc, lpc, mem, ready, idx, att,
                 sleepUntil, ticks, tickTime, preTick, processed, outcome, started, lnk>>

NextText == ApplyDeobfuscate
SpecText == InitText /\ [][NextText]_vars

\* C11: for every text t, deobfuscate(deobfuscate(t)) = deobfuscate(t).
C11_Idempotent ==
  (call.fn = "deobfuscate" /\ Len(call.out) = 2) => call.out[2] = call.out[1]

\* "1_uMM": the underscore is stripped, the letters are lowered and
\* collapsed, the filler is removed and the blank it leaves is trimmed
C11_Witness ==
  /\ call.fn = "deobfuscate"
  /\ call.text = <<"1", "_", "u", "M", "M">>
  /\ call.out = << <<"1">>, <<"1">> >>

-----------------------------------------------------------------------------
(* withRetry and getProxy (mint.js 749-771), applied on their own *)

\* lines of data/proxy.txt: a host written as a URL or as host:port
ProxyLines == {[form |-> "url", host |-> "h1"], [form |-> "hostport", host |-> "h1"],
               [form |-> "url", host |-> "h2"]}
ProxyLists == UNION {[1..n -> ProxyLines] : n \in 0..MaxProxies}
NoProxy == [url |-> "null"]
\* lines 595-606: both forms of a line give the URL of its host
parseProxy(line) == [url |-> line.host]

\* the mutation ignores the attempt index
getProxy_NoRotation(proxyList, baseIndex, offset) ==
  IF baseIndex < 0 \/ Len(proxyList) = 0 THEN NoProxy
  ELSE parseProxy(proxyList[(baseIndex % Len(proxyList)) + 1])

\* lines 766-771 (sequences are 1-based)
getProxy(proxyList, baseIndex, offset) ==
  IF baseIndex < 0 THEN NoProxy
  ELSE IF Len(proxyList) = 0 THEN NoProxy
  ELSE parseProxy(proxyList[((baseIndex + offset) % Len(proxyList)) + 1])

\* mint.js 340 and indexmint.js 299: the proxy index of the bot at position i
ProxyIdxOf(proxyList, i) == IF Len(proxyList) > 0 THEN i % Len(proxyList) ELSE 0 - 1

\* how one httpRequest may end (lines 688-722): it rejects on a socket error
\* or a timeout, and resolves with the response whatever its status code
NetOutcomes ==
  {[kind |-> "error", err |-> e, v |-> 0] : e \in {"socket hang up", "timed out"}}
    \cup {[kind |-> "response", err |-> "", v |-> code] : code \in {201, 404, 429, 500}}

\* the mutation makes a 5xx response an error
Rejects_OnServerError(o) == o.kind = "error" \/ o.v >= 500

\* lines 695, 713, 716-718: only an error rejects the promise
Rejects(o) == o.kind = "error"

\* a request wrapped in withRetry is about to be sent for the bot at
\* position i: fn(0) has been called and has picked its proxy
InitRetry ==
  /\ InitMint({FileAbsent}, {<<>>}, {TRUE})
  /\ lnk = LinkOff
  /\ \E ps \in ProxyLists, i \in 0..(Cardinality(Bots) - 1) :
       call = [fn |-> "withRetry", proxyList |-> ps, proxyIdx |-> ProxyIdxOf(ps, i),
               attempt |-> 0, used |-> <<getProxy(ps, ProxyIdxOf(ps, i), 0)>>,
               calls |-> <<0>>, outcomes |-> <<>>,
               waited |-> <<>>, end |-> "pending", result |-> [kind |-> "none", err |-> "", v |-> 0]]

RetryFrame ==
  UNCHANGED <<clock, disk, accounts, apiKeySet, mpc, lpc, mem, ready, idx, att,
              sleepUntil, ticks, tickTime, preTick, processed, outcome, started, lnk>>

\* line 752: fn(attempt) resolves and withRetry returns its value
RequestReturns ==
  /\ call.fn = "withRetry" /\ call.end = "pending"
  /\ \E o \in NetOutcomes :
       /\ ~Rejects(o)
       /\ call' = [call EXCEPT !.outcomes = Append(@, o), !.end = "returned", !.result = o]
  /\ RetryFrame

\* lines 753-759: fn(attempt) rejects; withRetry waits and calls fn again,
\* or rethrows after the last attempt
RequestThrows ==
  /\ call.fn = "withRetry" /\ call.end = "pending"
  /\ \E o \in NetOutcomes :
       /\ Rejects(o)
       /\ IF call.attempt < RETRIES
          THEN call' = [call EXCEPT
                          !.outcomes = Append(@, o),
                          !.attempt = @ + 1,
                          !.calls = Append(@, call.attempt + 1),
                          !.waited = Append(@, RetryWait(call.attempt)),
                          !.used = Append(@, getProxy(call.proxyList, call.proxyIdx,
                                                      call.attempt + 1))]
          ELSE call' = [call EXCEPT !.outcomes = Append(@, o), !.end = "threw",
                                    !.result = o]
  /\ RetryFrame

NextRetry == RequestReturns \/ RequestThrows
SpecRetry == InitRetry /\ [][NextRetry]_vars

\* two lines that follow each other in the list, the last being followed by
\* the first, never name the same proxy
AdjacentDiffer(ps) ==
  \A k \in 1..Len(ps) : parseProxy(ps[k]) # parseProxy(ps[(k % Len(ps)) + 1])

-----------------------------------------------------------------------------
(* Further properties of the mint attempt *)

\* create-post was answered 2xx
Created(json) == json.statusCode >= 200 /\ json.statusCode < 300

\* C13: whenever create-post is answered 2xx with a post id, that id is in
\* the bot's post_ids in the status file written after the attempt.
C13_PostIdSaved ==
  \A b \in Bots :
    (Ended(b) /\ Created(att[b].resp) /\ FieldTruthy(att[b].resp.postId)) =>
      att[b].resp.postId.v \in SeqToSet(Reloaded[b].post_ids)

\* C19: when create-post is answered with a status that is neither 2xx nor
\* 429, last_mint_attempt and next_mint_at keep their values (of all fields
\* only last_status_check, claimed and last_post_result are written),
\* last_post_result records the status code, and the next tick selects the
\* bot again.
C19_FailureKeepsTiming ==
  \A b \in Bots :
    (att[b].pc = "done" /\ att[b].result = "failed") =>
      /\ ~Created(att[b].resp) /\ att[b].resp.statusCode # 429
      /\ Ended(b) =>
           /\ outcome[b].last_mint_attempt = preTick[b].last_mint_attempt
           /\ outcome[b].next_mint_at = preTick[b].next_mint_at
           /\ outcome[b] = [preTick[b] EXCEPT
                              !.last_status_check = toISOString(att[b].now),
                              !.claimed = TRUE,
                              !.last_post_result = MintFail(att[b].resp.statusCode)]
           /\ Reloaded[b] = outcome[b]
      /\ (tickTime > att[b].tDone /\ b \in AccountSet) => b \in SeqToSet(BotsOf(ready))

\* create-post was answered 500 for a bot whose timers were set, and the next
\* tick selected the bot again
C19_Witness ==
  \E b \in Bots :
    /\ att[b].pc = "done" /\ att[b].result = "failed"
    /\ att[b].resp.statusCode = 500
    /\ outcome[b].last_post_result = MintFail(500)
    /\ outcome[b].next_mint_at = ExpiredRecord.next_mint_at
    /\ tickTime > att[b].tDone
    /\ b \in SeqToSet(BotsOf(ready))

\* one bot, claim-status requests that throw or carry no status
NextStatus == Step(StatusEnv)
SpecStatus == InitAttempt /\ [][NextStatus]_vars

\* C20: when the claim-status query fails (every attempt throws, or the reply
\* carries no status), no create-post request is sent in that attempt, the
\* record changes in last_status_check only (so last_mint_attempt and
\* next_mint_at keep their values), and the next tick selects the bot again.
C20_StatusCheckFailure ==
  \A b \in Bots :
    (att[b].pc = "done" /\ att[b].result = "status_failed") =>
      /\ att[b].nPost = 0
      /\ att[b].nStatus <= RETRIES + 1
      /\ Ended(b) =>
           /\ outcome[b] = [preTick[b] EXCEPT
                              !.last_status_check = toISOString(att[b].now)]
           /\ Reloaded[b] = outcome[b]
      /\ (tickTime > att[b].tDone /\ b \in AccountSet) => b \in SeqToSet(BotsOf(ready))

\* all three claim-status requests threw, and the next tick selected the bot
C20_Witness ==
  \E b \in Bots :
    /\ att[b].pc = "done" /\ att[b].result = "status_failed"
    /\ att[b].nStatus = RETRIES + 1
    /\ att[b].attempt = RETRIES
    /\ tickTime > att[b].tDone
    /\ b \in SeqToSet(BotsOf(ready))

\* C18: the time until a bot is eligible is max(0, next_mint_at - now)
\* whenever next_mint_at is set, whatever last_mint_attempt is; otherwise
\* max(0, cooldown - (now - last_mint_attempt)) when last_mint_attempt is
\* set; otherwise 0; and it is always a non-negative number.
C18_Readiness ==
  \A b \in AccountSet :
    LET rec == Reloaded[b]
        r == getTimeUntilMint(rec, clock)
    IN /\ ~r.nan
       /\ r.ms >= 0
       /\ rec.next_mint_at.k = "iso" => r.ms = Max(0, rec.next_mint_at.ms - clock)
       /\ (rec.next_mint_at.k = "null" /\ rec.last_mint_attempt.k = "iso") =>
            r.ms = Max(0, MINT_COOLDOWN_MS - (clock - rec.last_mint_attempt.ms))
       /\ (rec.next_mint_at.k = "null" /\ rec.last_mint_attempt.k = "null") => r.ms = 0

-----------------------------------------------------------------------------
(* The adaptive sleep *)

\* a stored record whose next_mint_at is d ms after the process starts
SoonRecord(d) ==
  [DefaultRecord EXCEPT !.claimed = TRUE,
                        !.last_mint_attempt = toISOString(StartTime - MINT_COOLDOWN_MS),
                        !.next_mint_at = toISOString(StartTime + d),
                        !.last_post_result = MintOk]
SleepFiles ==
  {FileOf(st) : st \in [Bots -> {NoRecord, SoonRecord(5000), SoonRecord(25000),
                                 SoonRecord(45000)}]}
SleepEnv ==
  [delays |-> {0},
   statusOut |-> {"claimed"},
   postOut |-> {PostCreated(TRUE, TRUE, "none"), PostCreated(TRUE, FALSE, "invalid"),
                PostCreated(TRUE, FALSE, "ahead"), PostLimited(Field(10), NoField),
                PostError(500)},
   oracleOut |-> {OracleSays(Text4700)},
   oracleRetryOut |-> {OracleSays(Text4700)},
   verifyOut |-> {"success"}]

\* two bots whose stored next_mint_at lie at different distances
InitSleep == InitWith(SleepFiles, {<<"Alpha", "Beta">>}, {TRUE})
NextSleep == Step(SleepEnv)
SpecSleep == InitSleep /\ [][NextSleep]_vars

\* the remaining times of the bots of the account list, as the sleep
\* computation sees them
Remaining == {getTimeUntilMint(Reloaded[b], clock) : b \in AccountSet}
Clamp(x) == Max(MIN_SLEEP_MS, Min(x, CHECK_INTERVAL_MS))

\* C17: the sleep chosen after a tick is at least 10 000 ms and at most
\* 60 000 ms; it is 10 000 ms whenever some bot is ready at that moment;
\* otherwise it is the smallest remaining time of a bot, clamped to that range
\* (60 000 ms when no bot has a remaining time).
C17_SleepBounds ==
  mpc = "sleeping" =>
    LET sleepMs == sleepUntil - clock
        waits == {r.ms : r \in {x \in Remaining : IsPositive(x)}}
    IN /\ sleepMs >= 10000 /\ sleepMs <= 60000
       /\ (\E r \in Remaining : IsZero(r)) => sleepMs = 10000
       /\ (\A r \in Remaining : ~IsZero(r)) =>
            IF waits = {} THEN sleepMs = 60000
            ELSE \E w \in waits : /\ \A v \in waits : w <= v
                                  /\ sleepMs = Clamp(w)

\* no bot is ready, the bots have 25 s and 45 s left, and the sleep is 25 s
C17_Witness ==
  /\ mpc = "sleeping"
  /\ sleepUntil - clock = 25000
  /\ Remaining = {Num(25000), Num(45000)}

-----------------------------------------------------------------------------
(* loadConfig and the settings derived from it (mint.js 466-494) *)

\* a string setting: absent, or present with a value ("": the empty string)
Unset == [has |-> FALSE, v |-> ""]
Str(x) == [has |-> TRUE, v |-> x]
\* JavaScript truthiness of a setting: present and not the empty string
Filled(f) == f.has /\ f.v # ""

\* lines 467-474
ConfigDefaults ==
  [wallet |-> Str(""), openai_api_key |-> Str(""), openai_model |-> Str("gpt-4o-mini")]

\* data/config.json: absent, not JSON, the JSON text null, or an object
\* with some of the three fields
ConfigObjects ==
  [wallet : {Unset, Str(""), Str("0xfile")},
   openai_api_key : {Unset, Str(""), Str("sk-file")},
   openai_model : {Unset, Str(""), Str("gpt-file")}]
ConfigFiles ==
  {[kind |-> k, obj |-> [wallet |-> Unset, openai_api_key |-> Unset, openai_model |-> Unset]] :
     k \in {"absent", "garbage", "null"}}
    \cup {[kind |-> "object", obj |-> o] : o \in ConfigObjects}
\* process.env
Environments ==
  [WALLET : {Unset, Str("0xenv")},
   OPENAI_API_KEY : {Unset, Str("sk-env")},
   OPENAI_MODEL : {Unset, Str(""), Str("gpt-env")}]

\* { ...defaults, ...parsed }: a field of the file replaces the default
Spread(defaults, obj) ==
  [f \in DOMAIN defaults |-> IF obj[f].has THEN obj[f] ELSE defaults[f]]

\* lines 466-488
loadConfig(file) ==
  IF file.kind = "absent" THEN ConfigDefaults
  ELSE IF file.kind = "garbage" THEN ConfigDefaults
  ELSE Spread(ConfigDefaults, file.obj)

\* lines 476-480: an absent file is created with the defaults
ConfigFileAfter(file) ==
  IF file.kind = "absent" THEN [kind |-> "object", obj |-> ConfigDefaults] ELSE file

\* a || b || c on settings
OrElse(a, b, c) == IF Filled(a) THEN a.v ELSE IF Filled(b) THEN b.v ELSE c

\* a module that requires shared.js is about to be loaded
InitConfig ==
  /\ InitMint({FileAbsent}, {<<>>}, {TRUE})
  /\ lnk = LinkOff
  /\ \E file \in ConfigFiles, env \in Environments :
       call = [fn |-> "loadConfig", before |-> file, file |-> file, env |-> env,
               loaded |-> FALSE, WALLET |-> "", OPENAI_API_KEY |-> "",
               OPENAI_MODEL |-> ""]

\* lines 490-494: shared.js is evaluated
LoadShared ==
  /\ call.fn = "loadConfig" /\ ~call.loaded
  /\ LET CONFIG == loadConfig(call.file)
     IN call' = [call EXCEPT
                   !.loaded = TRUE,
                   !.file = ConfigFileAfter(call.file),
                   !.WALLET = OrElse(CONFIG.wallet, call.env.WALLET, ""),
                   !.OPENAI_API_KEY =
                      OrElse(CONFIG.openai_api_key, call.env.OPENAI_API_KEY, ""),
                   !.OPENAI_MODEL =
                      OrElse(CONFIG.openai_model, call.env.OPENAI_MODEL, "gpt-4o-mini")]
  /\ UNCHANGED <<clock, disk, accounts, apiKeySet, mpc, lpc, mem, ready, idx, att,
                 sleepUntil, ticks, tickTime, preTick, processed, outcome, started, lnk>>

NextConfig == LoadShared
SpecConfig == InitConfig /\ [][NextConfig]_vars

\* the file sets a field: it is an object that has the field, not empty
FileSets(file, f) == file.kind = "object" /\ Filled(file.obj[f])

\* C16: the effective model is the config.json value if the file sets one,
\* otherwise the OPENAI_MODEL environment variable if set, otherwise
\* "gpt-4o-mini".
C16_ModelPrecedence ==
  (call.fn = "loadConfig" /\ call.loaded) =>
    call.OPENAI_MODEL =
      IF FileSets(call.before, "openai_model") THEN call.before.obj.openai_model.v
      ELSE IF Filled(call.env.OPENAI_MODEL) THEN call.env.OPENAI_MODEL.v
      ELSE "gpt-4o-mini"

-----------------------------------------------------------------------------
(* link.js (indexmint.js 206-319): main and linkBot *)

\* last_post_result: "link_ok", "link_rate_limit: <n>min", "link_fail: <code>"
LinkOk == [tag |-> "link_ok", n |-> 0]
LinkRateLimit(retryMin) == [tag |-> "link_rate_limit", n |-> retryMin]
LinkFail(code) == [tag |-> "link_fail", n |-> code]

\* line 281: retry_after_minutes || Math.ceil((retry_after_seconds || 1800) / 60)
LinkRetryMin(json) ==
  IF FieldTruthy(json.retry_after_minutes) THEN json.retry_after_minutes.v
  ELSE Ceil(IF FieldTruthy(json.retry_after_seconds) THEN json.retry_after_seconds.v
            ELSE DEFAULT_RETRY_SECONDS, 60)

\* the mutation never takes the early return
AlreadyLinked_Never(rec) == FALSE

\* line 235
AlreadyLinked(rec) == rec.wallet_linked

\* lines 277-278: the record after a 2xx reply to the link post
RecordAfterLink(rec) == [rec EXCEPT !.wallet_linked = TRUE, !.last_post_result = LinkOk]

\* a stored record of a bot whose wallet is linked
LinkedRecord ==
  [DefaultRecord EXCEPT !.claimed = TRUE, !.wallet_linked = TRUE,
                        !.last_post_attempt = toISOString(StartTime - MINT_COOLDOWN_MS),
                        !.last_post_result = LinkOk]
LinkFiles ==
  {FileAbsent, FileGarbage, FileNull}
    \cup {FileOf(st) : st \in [Bots -> {NoRecord, LinkedRecord, ExpiredRecord}]}

LinkEnv ==
  [delays |-> {NetDelay},
   statusOut |-> {"throw", "none", "claimed", "pending_claim"},
   postOut |-> {PostThrows, PostCreated(TRUE, FALSE, "none"),
                PostCreated(TRUE, TRUE, "none"), PostLimited(Field(90), NoField),
                PostError(500)},
   verifyOut |-> {"success", "rejected", "throw"}]

\* the locals of main and of the running linkBot call, and what a run did:
\* requests sent per bot, the bots it linked, the status it loaded, and how
\* the verification of each link post went ("none": no 2xx reply yet,
\* "not_required", "success", "failed")
LinkIdle ==
  [pc |-> "off", i |-> 0, status |-> EmptyStatus, step |-> "idle",
   attempt |-> 0, loaded |-> EmptyStatus,
   nStatus |-> [b \in Bots |-> 0], nPost |-> [b \in Bots |-> 0], linked |-> {},
   verification |-> [b \in Bots |-> "none"]]

InitLink ==
  /\ InitMint(LinkFiles, {<<"Alpha", "Beta">>}, {TRUE})
  /\ call = NoCall
  /\ lnk = LinkIdle

LinkFrame ==
  UNCHANGED <<accounts, apiKeySet, mpc, lpc, mem, ready, idx, att, sleepUntil, ticks,
              tickTime, preTick, processed, outcome, started, call>>

\* lines 291-294: node link.js is started; a status that parses to null
\* makes every linkBot throw, is written back as it is, and line 313
\* rejects main
LinkMain ==
  /\ lnk.pc = "off"
  /\ lnk' = IF LoadsNull(disk)
            THEN [LinkIdle EXCEPT !.pc = "fatal"]
            ELSE [LinkIdle EXCEPT
                    !.pc = "run", !.status = loadStatus(disk),
                    !.loaded = InitAll(loadStatus(disk), accounts, Len(accounts))]
  /\ UNCHANGED <<clock, disk>>
  /\ LinkFrame

\* the bot the for loop is at
LinkBot == accounts[lnk.i + 1]
\* linkBot returns or throws: the loop goes on (lines 303-307)
LinkBotEnds(l, status) ==
  [l EXCEPT !.status = status, !.i = @ + 1, !.step = "idle", !.attempt = 0]

\* lines 225-240: linkBot is called for the next bot
LinkBotStart ==
  /\ lnk.pc = "run" /\ lnk.step = "idle"
  /\ lnk.i < Len(accounts)
  /\ LET b == LinkBot
         status == initBotStatus(lnk.status, b)
     IN lnk' = IF AlreadyLinked(status[b])
               THEN LinkBotEnds(lnk, status)
               ELSE [lnk EXCEPT !.status = status, !.step = "status",
                                !.nStatus[b] = @ + 1]
  /\ UNCHANGED <<clock, disk>>
  /\ LinkFrame

\* lines 241-248: the claim-status request ends
LinkStatusReply(E) ==
  /\ lnk.pc = "run" /\ lnk.step = "status"
  /\ \E d \in E.delays, o \in E.statusOut :
       LET b == LinkBot
           apiStatus == IF o = "throw" THEN "none" ELSE o
       IN IF o = "throw" /\ lnk.attempt < RETRIES
          THEN /\ clock' = clock + d + RetryWait(lnk.attempt)
               /\ lnk' = [lnk EXCEPT !.attempt = @ + 1, !.nStatus[b] = @ + 1]
          ELSE /\ clock' = clock + d
               /\ LET status == [lnk.status EXCEPT
                                   ![b] = RecordAfterStatus(@, apiStatus, clock')]
                  IN lnk' = IF status[b].claimed /\ apiStatus # "none"
                            THEN [lnk EXCEPT !.status = status, !.step = "post",
                                             !.attempt = 0, !.nPost[b] = @ + 1]
                            ELSE LinkBotEnds(lnk, status)
  /\ UNCHANGED disk
  /\ LinkFrame

\* lines 266-274: what verifyPost gave for the reply json to the link post:
\* vResp.json.success, or a reply without it, or null (verifyPost catches its
\* own errors)
LinkVerification(json, v) ==
  IF ~json.verification_required THEN "not_required"
  ELSE IF v = "success" THEN "success" ELSE "failed"

\* lines 257-288: the link post request ends, and after a 2xx reply that
\* requires it, verifyPost.  The result of verifyPost is only logged.
LinkPostReply(E) ==
  /\ lnk.pc = "run" /\ lnk.step = "post"
  /\ \E d \in E.delays, o \in E.postOut, v \in E.verifyOut :
       LET b == LinkBot
           t == clock + d
           json == PostResponse(o, t)
           posted == [lnk.status EXCEPT ![b].last_post_attempt = toISOString(t)]
       IN IF o.statusCode < 0
          THEN IF lnk.attempt < RETRIES
               THEN /\ clock' = t + RetryWait(lnk.attempt)
                    /\ lnk' = [lnk EXCEPT !.attempt = @ + 1, !.nPost[b] = @ + 1]
               ELSE \* createPost rejects; main's catch logs it
                    /\ clock' = t
                    /\ lnk' = LinkBotEnds(lnk, lnk.status)
          ELSE /\ clock' = t
               /\ IF Created(json)
                  THEN lnk' = [LinkBotEnds(lnk, [posted EXCEPT ![b] = RecordAfterLink(@)])
                                 EXCEPT !.linked = @ \cup {b},
                                        !.verification[b] = LinkVerification(json, v)]
                  ELSE IF json.statusCode = 429
                  THEN lnk' = LinkBotEnds(lnk, [posted EXCEPT ![b].last_post_result =
                                                  LinkRateLimit(LinkRetryMin(json))])
                  ELSE lnk' = LinkBotEnds(lnk, [posted EXCEPT ![b].last_post_result =
                                                  LinkFail(json.statusCode)])
  /\ UNCHANGED disk
  /\ LinkFrame

\* line 309: after the loop the status is saved, once
LinkMainEnd ==
  /\ lnk.pc = "run" /\ lnk.step = "idle"
  /\ lnk.i = Len(accounts)
  /\ disk' = saveStatus(lnk.status)
  /\ lnk' = [lnk EXCEPT !.pc = "done"]
  /\ UNCHANGED clock
  /\ LinkFrame

\* the process is killed between two linkBot calls: its memory is lost
LinkCrash ==
  /\ lnk.pc = "run" /\ lnk.step = "idle"
  /\ lnk' = [lnk EXCEPT !.pc = "crashed", !.status = EmptyStatus]
  /\ UNCHANGED <<clock, disk>>
  /\ LinkFrame

\* the platform as the auto-mint process sees it when it is started after
\* link.js has finished
AfterLinkEnv ==
  [delays |-> {0},
   statusOut |-> {"claimed"},
   postOut |-> {PostCreated(TRUE, TRUE, "none"), PostError(500)},
   oracleOut |-> {OracleSays(Text4700)},
   oracleRetryOut |-> {OracleSays(Text4700)},
   verifyOut |-> {"success"}]

\* README, usage steps 1 and 2: mint.js runs once link.js is done
MintAfterLink == lnk.pc = "done" /\ Step(AfterLinkEnv)

NextLink ==
  \/ LinkMain
  \/ LinkBotStart
  \/ LinkStatusReply(LinkEnv)
  \/ LinkPostReply(LinkEnv)
  \/ LinkMainEnd
  \/ LinkCrash
  \/ MintAfterLink

SpecLink == InitLink /\ [][NextLink]_vars

\* C14: if link.js crashes after a bot was linked and before the next bot
\* is processed, the reloaded status file shows wallet_linked = true for the
\* linked bot.
C14_LinkPersistence ==
  lnk.pc = "crashed" => \A b \in lnk.linked : Reloaded[b].wallet_linked

\* C15: for a bot whose record has wallet_linked = true when linkBot is
\* called, no claim-status request and no link post are sent and the record
\* stays as it was; and in the status file wallet_linked, once true, is never
\* false again, whatever link.js and mint.js do afterwards.
C15_LinkSkip ==
  /\ [](\A b \in AccountSet :
          (lnk.pc \in {"run", "done", "crashed"} /\ lnk.loaded[b].wallet_linked) =>
            /\ lnk.nStatus[b] = 0
            /\ lnk.nPost[b] = 0
            /\ lnk.pc = "run" => lnk.status[b] = lnk.loaded[b])
  /\ [][\A b \in Bots : Reloaded[b].wallet_linked => Reloaded'[b].wallet_linked]_vars

\* Alpha was linked before the run and was skipped, Beta was linked by the
\* run, and mint.js has since minted for Alpha
C15_Witness ==
  /\ lnk.pc = "done"
  /\ lnk.loaded["Alpha"].wallet_linked
  /\ lnk.i = 2
  /\ lnk.linked = {"Beta"}
  /\ Reloaded["Alpha"].wallet_linked /\ Reloaded["Beta"].wallet_linked
  /\ Reloaded["Alpha"].last_post_result = MintOk

-----------------------------------------------------------------------------
(* The 2xx branch of tryMintBot *)

VerifyEnv ==
  [delays |-> {0},
   statusOut |-> {"claimed"},
   postOut |-> {PostCreated(TRUE, FALSE, "none"), PostCreated(TRUE, TRUE, "none"),
                PostCreated(TRUE, TRUE, "ahead"), PostError(500)},
   oracleOut |-> {OracleThrows, OracleSays(<<>>), OracleSays(Text4700), OracleSays(TextIdk)},
   oracleRetryOut |-> {OracleSays(Text4700), OracleSays(TextIdk)},
   verifyOut |-> {"success", "rejected", "throw"}]

InitVerify == InitWith(InitialFiles, {<<"Alpha", "Beta">>}, BOOLEAN)
NextVerify == Step(VerifyEnv)
SpecVerify == InitVerify /\ [][NextVerify]_vars

StoredPostIds(file, b) == loadStatus(file)[b].post_ids

\* bot b's attempt was answered 2xx with a post id and the verify endpoint
\* reported success
VerifiedPost(a) ==
  /\ Created(a.resp) /\ FieldTruthy(a.resp.postId)
  /\ a.nVerify >= 1 /\ a.verified

-----------------------------------------------------------------------------
(* The quiet tick (mint.js 338-354) *)

\* line 344: secs = Math.ceil(remaining / 1000)
Secs(r) == IF r.nan THEN NaN ELSE Num(Ceil(r.ms, 1000))

\* Math.min of two numbers: NaN as soon as one of them is NaN
MathMin(x, y) == IF x.nan \/ y.nan THEN NaN ELSE Num(Min(x.ms, y.ms))

RECURSIVE WaitingSecs(_, _, _, _)
\* lines 338-346: the secs of the waiting bots among the first n of the list;
\* a bot waits when its remaining time is not === 0
WaitingSecs(status, bots, now, n) ==
  IF n = 0 THEN <<>>
  ELSE LET rest == WaitingSecs(status, bots, now, n - 1)
           remaining == getTimeUntilMint(status[bots[n]], now)
       IN IF IsZero(remaining) THEN rest ELSE Append(rest, Secs(remaining))

RECURSIVE MathMinOf(_, _)
\* line 349: Math.min(...secs) over the first n entries of a non-empty list
MathMinOf(secs, n) == IF n = 1 THEN secs[1] ELSE MathMin(MathMinOf(secs, n - 1), secs[n])

\* line 349: nearestSec, the number the quiet tick prints as minutes and seconds
QuietReport(status, bots, now) ==
  LET secs == WaitingSecs(status, bots, now, Len(bots))
  IN MathMinOf(secs, Len(secs))

\* the remaining waits, in whole seconds, of the bots that are cooling down
CoolingWaits(status, bots, now) ==
  {Ceil(getTimeUntilMint(status[b], now).ms, 1000) :
     b \in {c \in SeqToSet(bots) : IsPositive(getTimeUntilMint(status[c], now))}}

\* C24: a tick that finds no bot ready, with at least one bot in the list,
\* sends no request, starts no attempt, leaves the status file as it is and
\* returns at once, and the wait it reports is the smallest remaining wait of
\* the bots that are cooling down.
C24_QuietTick ==
  [][(/\ ticks' = ticks + 1
      /\ ~LoadsNull(disk)
      /\ Len(accounts) > 0
      /\ ready' = <<>>) =>
       /\ disk' = disk
       /\ att' = att
       /\ started' = <<>> /\ processed' = <<>>
       /\ lpc' = "idle" /\ mpc' = "calc_sleep"
       /\ LET report == QuietReport(preTick', accounts, tickTime')
              waits == CoolingWaits(preTick', accounts, tickTime')
          IN /\ ~report.nan
             /\ report.ms \in waits
             /\ \A w \in waits : report.ms <= w]_vars

-----------------------------------------------------------------------------
(* Proxy assignment: checkLoop (mint.js 330-346, 361-365) and the proxy list *)
(* that getProxy keeps (mint.js 765-771), with data/proxy.txt being edited  *)
(* between ticks                                                            *)

\* line 765: let _proxyList = null
NoProxyList == [set |-> FALSE, list |-> <<>>]

\* the process is running and no tick is: proxy.txt holds ps
ProxyIdle(ps, cached, n) ==
  [fn |-> "checkLoop", pc |-> "idle", file |-> ps, proxyList |-> cached,
   proxies |-> <<>>, readyBots |-> <<>>, k |-> 0, used |-> <<>>, ticks |-> n]

InitProxy ==
  /\ InitMint({FileAbsent}, {<<"Alpha", "Beta">>}, {TRUE})
  /\ lnk = LinkOff
  /\ \E ps \in ProxyLists : call = ProxyIdle(ps, NoProxyList, 0)

RECURSIVE ReadyAt(_, _, _)
\* lines 338-346 for a given set of ready positions (0-based): the ready
\* entries among the first n bots, in list order, each with its proxy index
ReadyAt(readySet, proxies, n) ==
  IF n = 0 THEN <<>>
  ELSE LET rest == ReadyAt(readySet, proxies, n - 1)
       IN IF (n - 1) \in readySet
          THEN Append(rest, [i |-> n - 1, proxyIdx |-> ProxyIdxOf(proxies, n - 1)])
          ELSE rest

\* lines 330-359: a tick reads proxy.txt and partitions the bots
ProxyCheckLoop ==
  /\ call.fn = "checkLoop" /\ call.pc = "idle"
  /\ call.ticks < MaxTicks
  /\ \E readySet \in SUBSET (0..(Len(accounts) - 1)) :
       LET proxies == call.file
           readyBots == ReadyAt(readySet, proxies, Len(accounts))
       IN call' = [call EXCEPT !.ticks = @ + 1,
                               !.proxies = proxies,
                               !.readyBots = readyBots,
                               !.k = 0,
                               !.used = <<>>,
                               !.pc = IF readyBots = <<>> THEN "idle" ELSE "loop"]
  /\ RetryFrame

\* line 768: the list getProxy works with after a call with this base index
ProxyListAfter(cached, file, baseIndex) ==
  IF baseIndex < 0 \/ cached.set THEN cached ELSE [set |-> TRUE, list |-> file]

\* lines 361-362, 256 and 778-782: tryMintBot of the next ready bot sends its
\* first request, the claim-status query, through getProxy(proxyIdx, 0)
FirstRequest ==
  /\ call.fn = "checkLoop" /\ call.pc = "loop"
  /\ call.k < Len(call.readyBots)
  /\ LET e == call.readyBots[call.k + 1]
         cached == ProxyListAfter(call.proxyList, call.file, e.proxyIdx)
     IN call' = [call EXCEPT !.proxyList = cached,
                             !.k = @ + 1,
                             !.used = Append(@, getProxy(cached.list, e.proxyIdx, 0))]
  /\ RetryFrame

\* line 376: checkLoop returns
ProxyLoopEnd ==
  /\ call.fn = "checkLoop" /\ call.pc = "loop"
  /\ call.k = Len(call.readyBots)
  /\ call' = ProxyIdle(call.file, call.proxyList, call.ticks)
  /\ RetryFrame

\* the operator edits data/proxy.txt while the process sleeps
EditProxyFile ==
  /\ call.fn = "checkLoop" /\ call.pc = "idle"
  /\ call.ticks < MaxTicks
  /\ \E ps \in ProxyLists \ {call.file} : call' = [call EXCEPT !.file = ps]
  /\ RetryFrame

NextProxy == ProxyCheckLoop \/ FirstRequest \/ ProxyLoopEnd \/ EditProxyFile
SpecProxy == InitProxy /\ [][NextProxy]_vars

\* C25: the ready bots are taken in the order of the account list, and the
\* first request of the bot at position i of the account list goes through
\* entry i mod P of the proxy list the tick has read (P its length), or goes
\* direct when that list is empty.
C25_ProxyAssignment ==
  (call.fn = "checkLoop" /\ call.pc = "loop") =>
    LET P == Len(call.proxies)
    IN /\ Len(call.used) = call.k
       /\ \A j \in 1..(Len(call.readyBots) - 1) :
            call.readyBots[j].i < call.readyBots[j + 1].i
       /\ \A j \in 1..Len(call.used) :
            call.used[j] = IF P = 0 THEN NoProxy
                           ELSE parseProxy(call.proxies[(call.readyBots[j].i % P) + 1])

-----------------------------------------------------------------------------
(* The retry policy (mint.js 749-762) *)

\* the outcomes of the first n invocations are all errors
AllThrew(outcomes, n) == \A k \in 1..n : outcomes[k].kind = "error"

\* C26: fn is invoked with the attempt indices 0, 1, 2, ... in that order,
\* at most retries + 1 times; the first invocation that does not throw ends
\* the loop and its value is what withRetry returns; when all retries + 1
\* invocations throw, withRetry throws the error of the last one; before
\* invocation k + 1 it waits delay * (k + 1), and it does not wait after the
\* last failure.
C26_RetryProtocol ==
  call.fn = "withRetry" =>
    LET n == Len(call.calls)
    IN /\ n <= RETRIES + 1
       /\ \A k \in 1..n : call.calls[k] = k - 1
       /\ Len(call.waited) = n - 1
       /\ \A k \in 1..(n - 1) : call.waited[k] = RETRY_DELAY_MS * k
       /\ call.end = "pending" =>
            /\ Len(call.outcomes) = n - 1
            /\ AllThrew(call.outcomes, n - 1)
       /\ call.end = "returned" =>
            /\ Len(call.outcomes) = n
            /\ AllThrew(call.outcomes, n - 1)
            /\ call.outcomes[n].kind = "response"
            /\ call.result = call.outcomes[n]
       /\ call.end = "threw" =>
            /\ n = RETRIES + 1
            /\ Len(call.outcomes) = n
            /\ AllThrew(call.outcomes, n)
            /\ call.result = call.outcomes[n]

\* three invocations threw, the last with another error than the first, and
\* that last error is the one raised, after waits of 2 s and 4 s
C26_Witness ==
  /\ call.fn = "withRetry"
  /\ call.end = "threw"
  /\ call.calls = <<0, 1, 2>>
  /\ call.outcomes[1] # call.outcomes[3]
  /\ call.result = call.outcomes[3]
  /\ call.waited = <<RETRY_DELAY_MS, 2 * RETRY_DELAY_MS>>

\* C27: a request that is answered with an HTTP response, whatever its status
\* code, is not sent again: the response ends the call and is what the caller
\* gets; a request is sent again only after an attempt threw, so a call whose
\* first attempt is answered sends exactly one request.
C27_NoRetryOnResponse ==
  call.fn = "withRetry" =>
    /\ \A k \in 1..Len(call.outcomes) :
         call.outcomes[k].kind = "response" =>
           /\ k = Len(call.outcomes)
           /\ call.end = "returned"
           /\ call.result = call.outcomes[k]
           /\ Len(call.calls) = k
    /\ Len(call.calls) =
         1 + Cardinality({k \in 1..Len(call.outcomes) :
                            call.outcomes[k].kind = "error" /\ k <= RETRIES})
    /\ (call.outcomes # <<>> /\ call.outcomes[1].kind = "response") =>
         Len(call.calls) = 1

\* the first attempt was answered 500: one request was sent and the caller
\* has the 500
C27_Witness ==
  /\ call.fn = "withRetry"
  /\ call.end = "returned"
  /\ call.outcomes = <<[kind |-> "response", err |-> "", v |-> 500]>>
  /\ call.result.v = 500
  /\ Len(call.calls) = 1

-----------------------------------------------------------------------------
(* The solver's loop (mint.js 889-926) *)

\* the solver has ended without an answer: no verify request is sent
SolverFailed(a) == a.pc = "done" /\ a.nVerify = 0 /\ ~a.verified

\* what C28 says apart from when the second request is made: at most two
\* oracle requests; the second carries the corrective instruction and a
\* raised temperature; a second reply without a number fails the solver; the
\* answer handed to the verify request is parseAnswer of the latest reply
SolverLoop(a) ==
  /\ a.nOracle <= 2
  /\ a.nReplies <= a.nOracle
  /\ (a.pc = "oracle" /\ a.nOracle = 2) =>
       /\ OracleRequest(a.sAttempt).instruction = "corrective"
       /\ OracleRequest(a.sAttempt).temperature > OracleRequest(0).temperature
  /\ (a.nReplies = 2 /\ parseAnswer(a.raw) = NoAnswer) => SolverFailed(a)
  /\ a.nVerify >= 1 =>
       /\ a.answer = parseAnswer(a.raw)
       /\ a.answer # NoAnswer

\* C28 as claimed: ..., and the second request is made exactly when the first
\* reply contained no numeric token.
C28_AsClaimed ==
  \A b \in Bots :
    LET a == att[b]
    IN /\ SolverLoop(a)
       /\ a.nReplies = 1 => (parseAnswer(a.raw) = NoAnswer <=> a.nOracle = 2)

\* C28 amended: ..., and the second request is made exactly when the first
\* reply had a content without a numeric token; a first reply without content
\* and a request that throws end the solver at once, without an answer.
C28_SolverRetry ==
  \A b \in Bots :
    LET a == att[b]
    IN /\ SolverLoop(a)
       /\ a.nReplies = 1 =>
            ((a.raw # <<>> /\ parseAnswer(a.raw) = NoAnswer) <=> a.nOracle = 2)
       /\ (a.nReplies = 1 /\ a.raw = <<>>) => (a.nOracle = 1 /\ SolverFailed(a))
       /\ (a.pc # "oracle" /\ a.nReplies < a.nOracle) => SolverFailed(a)

\* the first reply had no number, the second request was answered "the
\* answer is 47.00", and "47.00" is handed to the verify request
C28_Witness ==
  \E b \in Bots :
    /\ att[b].nOracle = 2 /\ att[b].nReplies = 2
    /\ att[b].pc = "verify"
    /\ att[b].raw = TextTheAnswerIs4700
    /\ att[b].answer = Text4700

-----------------------------------------------------------------------------
(* The fixed-interval revision of the auto-mint loop (mint.js 1-206):       *)
(* main awaits one checkLoop and then starts one from setInterval every     *)
(* 60 s.  Each checkLoop execution has its own status object.               *)

OLD_MINT_COOLDOWN_MS == (2 * 60 + 5) * 60 * 1000

\* how long a request may take: a quick one, and one that outlasts the
\* interval (three attempts of 25 s each with their waits take longer still)
OldDurations == {NetDelay, CHECK_INTERVAL_MS + NetDelay}

\* lines 23-27
getTimeUntilMintOld(botStatus, now) ==
  IF ~Truthy(botStatus.last_mint_attempt) THEN Num(0)
  ELSE LET t == getTime(botStatus.last_mint_attempt)
       IN IF t.nan THEN NaN
          ELSE Num(Max(0, OLD_MINT_COOLDOWN_MS - (now - t.ms)))

RECURSIVE ReadyBotsOld(_, _, _, _)
\* lines 117-125: the names of the ready bots among the first n, in order
ReadyBotsOld(status, bots, now, n) ==
  IF n = 0 THEN <<>>
  ELSE LET rest == ReadyBotsOld(status, bots, now, n - 1)
       IN IF IsZero(getTimeUntilMintOld(status[bots[n]], now))
          THEN Append(rest, bots[n]) ELSE rest

\* lines 74-105: the record after the create-post reply; now is the
\* attempt's start, t is Date.now() when the reply is handled
RecordAfterPostOld(rec, json, now, t) ==
  IF Created(json)
  THEN [rec EXCEPT !.last_mint_attempt = toISOString(now), !.last_post_result = MintOk]
  ELSE IF json.statusCode = 429
  THEN [rec EXCEPT !.last_post_result = MintRateLimit(LinkRetryMin(json)),
                   !.last_mint_attempt =
                      toISOString(t - OLD_MINT_COOLDOWN_MS + LinkRetryMin(json) * 60 * 1000)]
  ELSE [rec EXCEPT !.last_post_result = MintFail(json.statusCode)]

\* one execution of checkLoop: its status object, its ready bots, the one it
\* is at (k), the request it awaits ("status", "post") or "done", when that
\* request ends, and the start of the running tryMintBot
OldRun(status, readyBots, k, pc, due, now) ==
  [status |-> status, readyBots |-> readyBots, k |-> k, pc |-> pc, due |-> due,
   now |-> now]

\* lines 108-141 and 29-47, up to the first await: checkLoop loads and
\* partitions; with a ready bot tryMintBot sends the claim-status request,
\* which takes d
CheckLoopBegins(file, bots, t, d) ==
  LET status == InitAll(loadStatus(file), bots, Len(bots))
      readyBots == ReadyBotsOld(status, bots, t, Len(bots))
  IN IF readyBots = <<>>
     THEN OldRun(status, readyBots, 0, "done", 0, 0)
     ELSE OldRun(status, readyBots, 1, "status", t + d, t)

\* the executions that await a request
Live(runs) == {i \in 1..Len(runs) : runs[i].pc # "done"}

OldFrame ==
  UNCHANGED <<accounts, apiKeySet, mpc, lpc, mem, ready, idx, att, sleepUntil, ticks,
              tickTime, preTick, processed, outcome, started, lnk>>

InitOld ==
  /\ InitMint({FileAbsent} \cup {FileOf(st) : st \in [Bots -> {NoRecord, ExpiredRecord}]},
              {<<"Alpha", "Beta">>}, {TRUE})
  /\ lnk = LinkOff
  /\ call = [fn |-> "setInterval", pc |-> "main", installed |-> FALSE, nextFire |-> 0,
             fires |-> 0, runs |-> <<>>]

\* line 191: main calls checkLoop and awaits it
OldMain ==
  /\ call.fn = "setInterval" /\ call.pc = "main"
  /\ \E d \in OldDurations :
       LET run == CheckLoopBegins(disk, accounts, clock, d)
       IN call' = [call EXCEPT
                     !.pc = "running",
                     !.runs = <<run>>,
                     !.installed = (run.pc = "done"),
                     !.nextFire = IF run.pc = "done" THEN clock + CHECK_INTERVAL_MS ELSE 0]
  /\ UNCHANGED <<clock, disk>>
  /\ OldFrame

\* no timer and no other request is due before the instant t
NothingDueBefore(c, t) ==
  /\ c.installed /\ c.fires < MaxTicks => c.nextFire >= t
  /\ \A j \in Live(c.runs) : c.runs[j].due >= t

\* lines 47-70: the claim-status request of execution i ends with "claimed";
\* tryMintBot sends the create-post request
OldStatusReply(i) ==
  /\ call.fn = "setInterval" /\ i \in Live(call.runs)
  /\ call.runs[i].pc = "status"
  /\ NothingDueBefore(call, call.runs[i].due)
  /\ \E d \in OldDurations :
       LET r == call.runs[i]
           b == r.readyBots[r.k]
           t == Max(clock, r.due)
           status == [r.status EXCEPT ![b] = RecordAfterStatus(@, "claimed", r.now)]
       IN /\ clock' = t
          /\ call' = [call EXCEPT !.runs[i] = [r EXCEPT !.status = status, !.pc = "post",
                                                        !.due = t + d]]
  /\ UNCHANGED disk
  /\ OldFrame

\* lines 70-105, 139-160 and 191-200: the create-post request of execution i
\* ends; the loop goes to the next ready bot, or checkLoop saves the status
\* and returns; when main's own checkLoop returns, main installs the interval
OldPostReply(i) ==
  /\ call.fn = "setInterval" /\ i \in Live(call.runs)
  /\ call.runs[i].pc = "post"
  /\ NothingDueBefore(call, call.runs[i].due)
  /\ \E d \in OldDurations, o \in {PostCreated(TRUE, FALSE, "none"), PostError(500),
                                   PostLimited(NoField, NoField)} :
       LET r == call.runs[i]
           b == r.readyBots[r.k]
           t == Max(clock, r.due)
           status == [r.status EXCEPT
                        ![b] = RecordAfterPostOld(@, PostResponse(o, t), r.now, t)]
       IN /\ clock' = t
          /\ IF r.k < Len(r.readyBots)
             THEN /\ call' = [call EXCEPT
                                !.runs[i] = [r EXCEPT !.status = status, !.k = @ + 1,
                                                      !.pc = "status", !.due = t + d,
                                                      !.now = t]]
                  /\ UNCHANGED disk
             ELSE /\ disk' = saveStatus(status)
                  /\ call' = [call EXCEPT
                                !.runs[i] = [r EXCEPT !.status = status, !.pc = "done"],
                                !.installed = TRUE,
                                !.nextFire = IF call.installed THEN @
                                             ELSE t + CHECK_INTERVAL_MS]
  /\ OldFrame

\* lines 194-200: the interval fires and its callback calls checkLoop,
\* whether or not an earlier checkLoop has returned
OldTimerFires ==
  /\ call.fn = "setInterval" /\ call.installed
  /\ call.fires < MaxTicks
  /\ \A j \in Live(call.runs) : call.runs[j].due >= call.nextFire
  /\ \E d \in OldDurations :
       LET t == Max(clock, call.nextFire)
       IN /\ clock' = t
          /\ call' = [call EXCEPT
                        !.fires = @ + 1,
                        !.nextFire = @ + CHECK_INTERVAL_MS,
                        !.runs = Append(@, CheckLoopBegins(disk, accounts, t, d))]
  /\ UNCHANGED disk
  /\ OldFrame

NextOld ==
  \/ OldMain
  \/ \E i \in 1..(MaxTicks + 1) : OldStatusReply(i)
  \/ \E i \in 1..(MaxTicks + 1) : OldPostReply(i)
  \/ OldTimerFires

SpecOld == InitOld /\ [][NextOld]_vars

\* C29: in the fixed-interval revision at most one checkLoop execution is in
\* progress at any time, so no two executions hold a status object they will
\* write, and no bot has two mint attempts in flight.
C29_NoOverlappingTicks ==
  call.fn = "setInterval" =>
    /\ Cardinality(Live(call.runs)) <= 1
    /\ \A i, j \in Live(call.runs) :
         i # j => call.runs[i].readyBots[call.runs[i].k] # call.runs[j].readyBots[call.runs[j].k]

-----------------------------------------------------------------------------
(* The records of the status store over a tick (mint.js 330-365, 619-630)   *)

\* the names of the account list
AccountNames == {accounts[i] : i \in 1..Len(accounts)}

\* C30: records are created lazily and never deleted: the status a tick
\* works on keeps every record the store held when the tick loaded it,
\* unchanged by initBotStatus, and every save of the mint loop holds a record
\* for every bot of the account list and every record the tick loaded, the
\* records of bots that are not in the account list as they were.
C30_RecordsKept ==
  [][/\ (ticks' = ticks + 1 /\ ~(LoadsNull(disk) /\ Len(accounts) > 0)) =>
          /\ \A b \in Bots : loadStatus(disk)[b].exists => mem'[b] = loadStatus(disk)[b]
          /\ \A b \in AccountNames : mem'[b].exists
     /\ disk' # disk =>
          /\ disk'.kind = "map"
          /\ \A b \in AccountNames : disk'.map[b].exists
          /\ \A b \in Bots : preTick[b].exists => disk'.map[b].exists
          /\ \A b \in Bots \ AccountNames : disk'.map[b] = loadStatus(disk)[b]]_vars

\* a save that created Alpha's record in this tick and kept the record of
\* Beta, which is not in the account list
C30_Witness ==
  /\ AccountNames = {"Alpha"}
  /\ processed = <<"Alpha">>
  /\ preTick["Alpha"] = DefaultRecord
  /\ disk = saveStatus(mem)
  /\ disk.map["Alpha"].exists
  /\ disk.map["Beta"] = CoolingRecord

-----------------------------------------------------------------------------
(* httpRequest and its redirects (mint.js 650-723)                          *)

\* the largest maxRedirects a caller passes
MaxHops == 2

\* line 653: maxRedirects = 5 when the caller gives none
DEFAULT_MAX_REDIRECTS == 5

\* line 696
RedirectCodes == {301, 302, 303, 307, 308}
\* lines 701-702
DowngradeCodes == {301, 302, 303}

\* opts.body: null/undefined, or a string
NoBody == [has |-> FALSE, v |-> ""]
BodyOf(s) == [has |-> TRUE, v |-> s]

\* lines 651-655: the destructuring of opts with its defaults; raw gives each
\* optional field as [has, v]
Destructure(raw) ==
  [method |-> IF raw.method.has THEN raw.method.v ELSE "GET",
   body |-> raw.body,
   followRedirects |-> IF raw.followRedirects.has THEN raw.followRedirects.v ELSE FALSE,
   maxRedirects |-> IF raw.maxRedirects.has THEN raw.maxRedirects.v
                    ELSE DEFAULT_MAX_REDIRECTS]

\* lines 664-674 and 719-720: what goes on the wire for opts: the method, the
\* body written (bodyStr only when it is truthy) and whether a content-length
\* header is set (whenever body is neither undefined nor null)
WireRequest(opts) ==
  [method |-> opts.method,
   body |-> IF opts.body.has THEN opts.body.v ELSE "",
   contentLength |-> opts.body.has]

Follows_OneMore(opts, reply) ==
  /\ opts.followRedirects
  /\ reply.statusCode \in RedirectCodes
  /\ reply.location
  /\ opts.maxRedirects >= 0

\* line 696: the reply is followed
Follows(opts, reply) ==
  /\ opts.followRedirects
  /\ reply.statusCode \in RedirectCodes
  /\ reply.location
  /\ opts.maxRedirects > 0

NextMethod_Keep(statusCode, method) == method

\* line 701
NextMethod(statusCode, method) ==
  IF statusCode \in DowngradeCodes THEN "GET" ELSE method

\* line 702
NextBody(statusCode, body) ==
  IF statusCode \in DowngradeCodes THEN NoBody ELSE body

\* lines 699-706: the opts of the recursive call
NextOpts(opts, reply) ==
  [method |-> NextMethod(reply.statusCode, opts.method),
   body |-> NextBody(reply.statusCode, opts.body),
   followRedirects |-> TRUE,
   maxRedirects |-> opts.maxRedirects - 1]

\* what callers pass
HttpRawOpts ==
  [method : {[has |-> FALSE, v |-> ""], [has |-> TRUE, v |-> "GET"],
             [has |-> TRUE, v |-> "POST"]},
   body : {NoBody, BodyOf(""), BodyOf("payload")},
   followRedirects : {[has |-> FALSE, v |-> FALSE], [has |-> TRUE, v |-> FALSE],
                      [has |-> TRUE, v |-> TRUE]},
   maxRedirects : {[has |-> FALSE, v |-> 0]}
                    \cup {[has |-> TRUE, v |-> m] : m \in 0..MaxHops}]

\* what a server answers: a status and whether it carries a Location
HttpReplies ==
  [statusCode : {200, 404} \cup RedirectCodes, location : BOOLEAN]

NoReply == [statusCode |-> 0, location |-> FALSE]

\* httpRequest(raw) has been called
InitHttp ==
  /\ InitMint({FileAbsent}, {<<>>}, {TRUE})
  /\ lnk = LinkOff
  /\ \E raw \in HttpRawOpts :
       call = [fn |-> "httpRequest", pc |-> "called", first |-> Destructure(raw),
               opts |-> Destructure(raw), sent |-> <<>>, replies |-> <<>>,
               end |-> "pending", result |-> NoReply]

\* lines 657-690 and 716-721: the request of the running call is built and sent
HttpSend ==
  /\ call.fn = "httpRequest" /\ call.pc = "called"
  /\ call' = [call EXCEPT !.pc = "sent", !.sent = Append(@, WireRequest(call.opts))]
  /\ RetryFrame

\* lines 691-714: the response has ended: httpRequest calls itself for the
\* next hop and resolves with that call's promise, or resolves with the
\* response
HttpResponse ==
  /\ call.fn = "httpRequest" /\ call.pc = "sent"
  /\ \E reply \in HttpReplies :
       IF Follows(call.opts, reply)
       THEN call' = [call EXCEPT !.pc = "called", !.opts = NextOpts(call.opts, reply),
                                 !.replies = Append(@, reply)]
       ELSE call' = [call EXCEPT !.pc = "done", !.replies = Append(@, reply),
                                 !.end = "resolved", !.result = reply]
  /\ RetryFrame

\* lines 695 and 715-718: the socket fails or the timeout destroys the
\* request; the promise of every enclosing call rejects
HttpError ==
  /\ call.fn = "httpRequest" /\ call.pc = "sent"
  /\ call' = [call EXCEPT !.pc = "done", !.end = "rejected"]
  /\ RetryFrame

NextHttp == HttpSend \/ HttpResponse \/ HttpError

SpecHttp == InitHttp /\ [][NextHttp]_vars

\* C31: at every hop that follows a redirect, a 301, 302 or 303 makes the
\* next request a GET without body, and a 307 or 308 makes the next request
\* use the method and the body of the request that was redirected.
C31_RedirectMethod ==
  call.fn = "httpRequest" =>
    \A i \in 1..(Len(call.sent) - 1) :
      /\ call.replies[i].statusCode \in DowngradeCodes =>
           call.sent[i + 1] = [method |-> "GET", body |-> "", contentLength |-> FALSE]
      /\ call.replies[i].statusCode \in {307, 308} => call.sent[i + 1] = call.sent[i]

\* a POST with a body redirected by 307, then 301, then 308
C31_Witness ==
  /\ call.fn = "httpRequest"
  /\ Len(call.sent) = 4
  /\ call.sent[1] = [method |-> "POST", body |-> "payload", contentLength |-> TRUE]
  /\ call.replies[1].statusCode = 307
  /\ call.replies[2].statusCode = 301
  /\ call.replies[3].statusCode = 308
  /\ call.sent[4].method = "GET"

\* C32: with followRedirects and maximum hop count m one call sends at most
\* m + 1 requests; after the m + 1st the call resolves with the last
\* response, a 3xx with its Location when the server still redirects; without
\* followRedirects exactly one request is sent.
C32_RedirectsEnd ==
  call.fn = "httpRequest" =>
    /\ Len(call.sent) <= (IF call.first.followRedirects THEN call.first.maxRedirects + 1
                          ELSE 1)
    /\ call.pc # "called" /\ ~call.first.followRedirects => Len(call.sent) = 1
    /\ call.end = "resolved" =>
         /\ call.result = call.replies[Len(call.replies)]
         /\ Len(call.replies) = Len(call.sent)
    /\ call.first.followRedirects /\ Len(call.replies) = call.first.maxRedirects + 1 =>
         /\ call.end = "resolved"
         /\ call.result = call.replies[call.first.maxRedirects + 1]

\* a server that redirects forever: the third response, a 307 with its
\* Location, is returned to a caller that allowed two hops
C32_Witness ==
  /\ call.fn = "httpRequest"
  /\ call.first.followRedirects /\ call.first.maxRedirects = 2
  /\ Len(call.sent) = 3 /\ Len(call.replies) = 3
  /\ \A i \in 1..3 : call.replies[i] = [statusCode |-> 307, location |-> TRUE]
  /\ call.end = "resolved"
  /\ call.result = [statusCode |-> 307, location |-> TRUE]

-----------------------------------------------------------------------------
(* indexmint.js: index-agent first, index-post as the fallback              *)
(* (indexmint.js 1-204)                                                     *)

\* indexmint.js 52: the requests tryIndexAgent may send for one bot
INDEX_ATTEMPTS == 3

\* indexmint.js 23-26 (sequences are 1-based)
getProxyByIndex(proxies, i) ==
  IF Len(proxies) = 0 THEN NoProxy ELSE parseProxy(proxies[(i % Len(proxies)) + 1])

\* what one index-agent request may give: httpRequest rejects, or resolves
\* with a reply whose JSON has success and the three counters, or an error
\* text, or is no JSON at all (error "" and success FALSE)
IndexThrows ==
  [kind |-> "throw", success |-> FALSE, indexed |-> 0, skipped |-> 0, mbc20Posts |-> 0,
   error |-> "", statusCode |-> 0]
IndexSuccess(indexed, skipped, mbc20Posts) ==
  [kind |-> "reply", success |-> TRUE, indexed |-> indexed, skipped |-> skipped,
   mbc20Posts |-> mbc20Posts, error |-> "", statusCode |-> 200]
IndexError(error, statusCode) ==
  [kind |-> "reply", success |-> FALSE, indexed |-> 0, skipped |-> 0, mbc20Posts |-> 0,
   error |-> error, statusCode |-> statusCode]

IndexReplies ==
  {IndexThrows}
    \cup {IndexSuccess(n, s, m) : n \in 0..1, s \in 0..1, m \in 0..1}
    \cup {IndexError("Agent Not Found", 404), IndexError("Rate limit exceeded", 429),
          IndexError("", 404)}

\* indexmint.js 63: resp.json?.error || `HTTP ${resp.statusCode}`
ErrMsg(reply) ==
  IF reply.error # "" THEN reply.error
  ELSE IF reply.statusCode = 404 THEN "HTTP 404" ELSE "HTTP 429"

\* indexmint.js 64: errMsg.toLowerCase().includes("not found"), on the
\* messages of IndexReplies
MentionsNotFound(errMsg) == errMsg \in {"Agent Not Found", "Agent not found"}

\* what tryIndexAgent returns; "none" while it has not returned
IndexResult(kind, reply, error) ==
  [kind |-> kind, indexed |-> reply.indexed, skipped |-> reply.skipped,
   mbc20Posts |-> reply.mbc20Posts, error |-> error]
NoIndexResult == IndexResult("none", IndexThrows, "")

GoesOn_Always(attempt) == TRUE

\* indexmint.js 65 and 75: attempt < 2
GoesOn(attempt) == attempt < INDEX_ATTEMPTS - 1

\* indexmint.js 52-83: what the reply to attempt number attempt makes of
\* tryIndexAgent: "retry", or the result it returns
AfterIndexReply(reply, attempt) ==
  IF reply.kind = "throw"
  THEN IF GoesOn(attempt) THEN IndexResult("retry", IndexThrows, "")
       ELSE IndexResult("error", IndexThrows, "request failed")
  ELSE IF reply.success THEN IndexResult("ok", reply, "")
  ELSE IF MentionsNotFound(ErrMsg(reply))
  THEN IF GoesOn(attempt) THEN IndexResult("retry", IndexThrows, "")
       ELSE IndexResult("notFound", IndexThrows, "")
  ELSE IndexResult("error", IndexThrows, ErrMsg(reply))

FallsBack_OnAnyFailure(result) ==
  \/ result.kind # "ok"
  \/ result.kind = "ok" /\ ~(result.indexed > 0) /\ ~(result.skipped > 0)
       /\ result.mbc20Posts = 0

\* indexmint.js 149-179: main goes to index-post for this result of
\* tryIndexAgent (when the bot has saved post ids)
FallsBack(result) ==
  \/ result.kind = "notFound"
  \/ result.kind = "ok" /\ ~(result.indexed > 0) /\ ~(result.skipped > 0)
       /\ result.mbc20Posts = 0

\* a record with saved post ids
RecordWithPosts(ids) == [CoolingRecord EXCEPT !.post_ids = ids]

IndexFiles ==
  {FileAbsent}
    \cup {FileOf(st) : st \in [Bots -> {NoRecord, RecordWithPosts(<<"p1">>),
                                        RecordWithPosts(<<"p1", "p2">>)}]}

IndexProxyLists ==
  {<<>>, <<[form |-> "url", host |-> "h1"], [form |-> "hostport", host |-> "h2"]>>}

\* node indexmint.js before main runs
InitIndex ==
  /\ InitMint(IndexFiles, {<<"Alpha", "Beta">>}, {TRUE})
  /\ lnk = LinkOff
  /\ \E ps \in IndexProxyLists :
       call = [fn |-> "indexmint", pc |-> "start", proxies |-> ps, status |-> EmptyStatus,
               i |-> 0, attempt |-> 0, p |-> 0,
               replies |-> <<>>, used |-> <<>>,
               result |-> [b \in Bots |-> NoIndexResult],
               nAgent |-> [b \in Bots |-> 0],
               posted |-> [b \in Bots |-> <<>>],
               order |-> [b \in Bots |-> <<>>]]

\* indexmint.js 140-147 and 50-57: main's loop comes to the bot at position
\* i (1-based): initBotStatus, savedPosts, and the first index-agent request
BotBegins(c, i) ==
  LET b == accounts[i]
  IN [c EXCEPT !.pc = "agent", !.i = i, !.attempt = 0, !.p = 0,
               !.status = initBotStatus(@, b),
               !.replies = <<>>,
               !.used = <<getProxyByIndex(c.proxies, i - 1)>>,
               !.nAgent[b] = 1,
               !.order[b] = <<"agent">>]

\* indexmint.js 184-191: the end of the loop body for the bot at position i
BotEnds(c) ==
  IF c.i < Len(accounts) THEN BotBegins(c, c.i + 1) ELSE [c EXCEPT !.pc = "done"]

\* indexmint.js 89-99: indexByPostIds sends the request for post number p
PostRequest(c, p) ==
  LET b == accounts[c.i]
  IN [c EXCEPT !.pc = "posts", !.p = p,
               !.posted[b] = Append(@, c.status[b].post_ids[p]),
               !.order[b] = Append(@, "post")]

\* indexmint.js 149-182: main with the result of tryIndexAgent
AfterAgent(c) ==
  LET b == accounts[c.i]
  IN IF FallsBack(c.result[b]) /\ Len(c.status[b].post_ids) > 0
     THEN PostRequest(c, 1)
     ELSE BotEnds(c)

\* indexmint.js 118-132: main starts
IndexMain ==
  /\ call.fn = "indexmint" /\ call.pc = "start"
  /\ ~LoadsNull(disk)
  /\ call' = BotBegins([call EXCEPT !.status = loadStatus(disk)], 1)
  /\ RetryFrame

\* indexmint.js 52-83: the index-agent request of the running attempt ends
IndexAgentReply ==
  /\ call.fn = "indexmint" /\ call.pc = "agent"
  /\ \E reply \in IndexReplies :
       LET b == accounts[call.i]
           r == AfterIndexReply(reply, call.attempt)
           c == [call EXCEPT !.replies = Append(@, reply)]
       IN IF r.kind = "retry"
          THEN call' = [c EXCEPT !.attempt = @ + 1,
                                 !.used = Append(@, getProxyByIndex(c.proxies,
                                                      (c.i - 1) + (c.attempt + 1))),
                                 !.nAgent[b] = @ + 1,
                                 !.order[b] = Append(@, "agent")]
          ELSE call' = AfterAgent([c EXCEPT !.result[b] = r])
  /\ RetryFrame

\* indexmint.js 96-112: the index-post request for post number p ends (with
\* success, a failure reply or an error: only the counters of the summary
\* differ); the next one is sent or indexByPostIds returns
IndexPostReply ==
  /\ call.fn = "indexmint" /\ call.pc = "posts"
  /\ LET b == accounts[call.i]
     IN call' = IF call.p < Len(call.status[b].post_ids)
                THEN PostRequest(call, call.p + 1)
                ELSE BotEnds(call)
  /\ RetryFrame

NextIndex == IndexMain \/ IndexAgentReply \/ IndexPostReply

SpecIndex == InitIndex /\ [][NextIndex]_vars

\* the reply is an API error that mentions "not found"
IsNotFoundReply(reply) ==
  reply.kind = "reply" /\ ~reply.success /\ MentionsNotFound(ErrMsg(reply))

\* q is a prefix of r
IsPrefix(q, r) == Len(q) <= Len(r) /\ \A k \in 1..Len(q) : q[k] = r[k]

\* C33: for every bot the index-post requests come after its index-agent
\* requests, are for its saved post ids, and are sent only when index-agent
\* answered "not found" to the last of its three attempts or succeeded with
\* zero indexed, zero skipped and zero MBC-20 posts; after any other error or
\* a successful index no index-post request is sent.
C33_IndexOrdering ==
  call.fn = "indexmint" =>
    \A b \in Bots :
      LET order == call.order[b]
          result == call.result[b]
      IN /\ \A j, k \in 1..Len(order) : j < k /\ order[j] = "post" => order[k] = "post"
         /\ order # <<>> => order[1] = "agent"
         /\ IsPrefix(call.posted[b], StoredPostIds(disk, b))
         /\ call.posted[b] # <<>> =>
              \/ /\ result.kind = "notFound"
                 /\ call.i > 0 /\ accounts[call.i] = b =>
                      /\ Len(call.replies) = INDEX_ATTEMPTS
                      /\ IsNotFoundReply(call.replies[INDEX_ATTEMPTS])
              \/ /\ result.kind = "ok"
                 /\ result.indexed = 0 /\ result.skipped = 0 /\ result.mbc20Posts = 0
         /\ (result.kind = "error"
               \/ (result.kind = "ok" /\ (result.indexed > 0 \/ result.skipped > 0)))
              => call.posted[b] = <<>>

\* Alpha's two posts were requested after three "not found" replies, Beta's
\* post after a success with three zeros
C33_Witness ==
  /\ call.fn = "indexmint" /\ call.pc = "done"
  /\ call.result["Alpha"].kind = "notFound"
  /\ call.order["Alpha"] = <<"agent", "agent", "agent", "post", "post">>
  /\ call.posted["Alpha"] = <<"p1", "p2">>
  /\ call.result["Beta"].kind = "ok"
  /\ call.order["Beta"] = <<"agent", "post">>

\* C39: tryIndexAgent sends at most three requests for a bot, the one of
\* attempt k through the proxy at index baseIdx + k; a request is followed by
\* another only after an error thrown or a "not found" reply; a success or
\* another API error ends it at once; it returns ok, notFound or error, one of
\* them, and never throws.
C39_TryIndexAgent ==
  call.fn = "indexmint" /\ call.i > 0 =>
    LET b == accounts[call.i]
        n == Len(call.replies)
        result == call.result[b]
    IN /\ \A c \in Bots : call.nAgent[c] <= INDEX_ATTEMPTS
       /\ Len(call.used) = call.nAgent[b]
       /\ \A k \in 1..Len(call.used) :
            call.used[k] = IF Len(call.proxies) = 0 THEN NoProxy
                           ELSE parseProxy(call.proxies[
                                  (((call.i - 1) + (k - 1)) % Len(call.proxies)) + 1])
       /\ \A k \in 1..n :
            k < Len(call.used) => call.replies[k].kind = "throw" \/ IsNotFoundReply(call.replies[k])
       /\ call.pc = "agent" => result.kind = "none" /\ n = Len(call.used) - 1
       /\ call.pc # "agent" =>
            /\ n = Len(call.used)
            /\ result.kind \in {"ok", "notFound", "error"}
            /\ result.kind = "ok" <=> call.replies[n].kind = "reply" /\ call.replies[n].success
            /\ result.kind = "notFound" <=> IsNotFoundReply(call.replies[n])
            /\ result.kind = "notFound" => n = INDEX_ATTEMPTS
            /\ call.replies[n].kind = "throw" => n = INDEX_ATTEMPTS
       /\ \A k \in 1..n :
            (call.replies[k].kind = "reply" /\ ~IsNotFoundReply(call.replies[k])) => k = n

\* Beta's third request, after an error and a "not found", went through the
\* proxy at index 1 + 2 and was answered by another API error
C39_Witness ==
  /\ call.fn = "indexmint" /\ call.pc = "done"
  /\ Len(call.proxies) = 2
  /\ call.nAgent["Beta"] = 3
  /\ call.replies[1].kind = "throw"
  /\ IsNotFoundReply(call.replies[2])
  /\ call.replies[3] = IndexError("Rate limit exceeded", 429)
  /\ call.used[3] = parseProxy(call.proxies[2])
  /\ call.result["Beta"].kind = "error"

-----------------------------------------------------------------------------
(* Re-posting after a 2xx (mint.js 229-238, 277-310, 338-346)               *)

\* bot b's tryMintBot sends its create-post request in this step
SendsPost(b) == att[b].pc = "status" /\ att'[b].pc = "post"

\* bot b's create-post was answered 2xx in the tick that has just ended
MintedLastTick(b) == att[b].result = "ok" /\ b \in SeqToSet(processed)

-----------------------------------------------------------------------------
(* One bot's attempt and the other bots' records (mint.js 240-328)          *)

\* two bots; create-post throws, succeeds, is rate limited or fails
FrameEnv ==
  [delays |-> {0},
   statusOut |-> {"claimed"},
   postOut |-> {PostThrows, PostCreated(TRUE, TRUE, "none"),
                PostLimited(Field(10), NoField), PostError(500)},
   oracleOut |-> {OracleSays(Text4700)},
   oracleRetryOut |-> {OracleSays(Text4700)},
   verifyOut |-> {"success", "throw"}]

InitFrame ==
  InitWith({FileAbsent} \cup {FileOf(st) : st \in [Bots -> {NoRecord, ExpiredRecord}]},
           {<<"Alpha", "Beta">>}, {TRUE})
NextFrame == Step(FrameEnv)
SpecFrame == InitFrame /\ [][NextFrame]_vars

\* the timers of a record
Timers(rec) == <<rec.last_mint_attempt, rec.next_mint_at>>

\* C35: a step of bot i's tryMintBot, whatever its outcome, leaves the record
\* of every other bot as it was, in the status object and in the file it
\* saves; within a tick a bot's timers change only in a step of its own
\* attempt.
C35_PerBotFrame ==
  [][ticks' = ticks =>
       /\ \A i \in Bots :
            att'[i] # att[i] =>
              \A j \in Bots \ {i} :
                /\ mem'[j] = mem[j]
                /\ att'[j] = att[j]
                /\ disk' # disk => disk'.kind = "map" /\ disk'.map[j] = mem[j]
       /\ \A j \in Bots :
            Timers(mem'[j]) # Timers(mem[j]) => InFlight(att[j]) /\ att'[j].pc = "done"]_vars

\* Alpha's attempt has ended with 2xx and changed Alpha's record; Beta, next
\* in the ready list, has the record the tick loaded, in memory and on disk
C35_Witness ==
  /\ BotsOf(ready) = <<"Alpha", "Beta">>
  /\ processed = <<"Alpha">>
  /\ att["Alpha"].result = "ok"
  /\ mem["Alpha"] # preTick["Alpha"]
  /\ mem["Beta"] = preTick["Beta"]
  /\ disk = saveStatus(mem)

-----------------------------------------------------------------------------
(* The requests of one attempt (mint.js 240-328, 749-835, 889-926)          *)

\* one bot; every request may fail, and every request ends
WorkEnv ==
  [delays |-> {0},
   statusOut |-> {"throw", "claimed"},
   postOut |-> {PostThrows, PostCreated(TRUE, TRUE, "none"), PostError(500)},
   oracleOut |-> {OracleThrows, OracleSays(Text4700), OracleSays(TextIdk)},
   oracleRetryOut |-> {OracleSays(Text4700), OracleSays(TextIdk)},
   verifyOut |-> {"success", "rejected", "throw"}]

InitWork ==
  InitWith({FileAbsent, FileOf([EmptyStatus EXCEPT !["Alpha"] = ExpiredRecord])},
           {<<"Alpha">>}, {TRUE})
NextWork == Step(WorkEnv)
\* every request completes or times out: a step that is enabled is taken
SpecWork == InitWork /\ [][NextWork]_vars /\ WF_vars(NextWork)

\* the requests of a call come in the order status, post, oracle, verify
RequestOrder(a, a2) ==
  /\ a2.nStatus > a.nStatus => a.nPost = 0 /\ a.nOracle = 0 /\ a.nVerify = 0
  /\ a2.nPost > a.nPost => a.nStatus > 0 /\ a.nOracle = 0 /\ a.nVerify = 0
  /\ a2.nOracle > a.nOracle => a.nPost > 0 /\ a.nVerify = 0
  /\ a2.nVerify > a.nVerify => a.nOracle > 0

\* C36: one attempt sends at most 3 claim-status, 3 create-post, 2 oracle and
\* 3 verify requests, in that order, and ends; so every tick ends when every
\* request completes or times out.
C36_BoundedWork ==
  /\ [](\A b \in Bots : /\ att[b].nStatus <= 3 /\ att[b].nPost <= 3
                        /\ att[b].nOracle <= 2 /\ att[b].nVerify <= 3)
  /\ [][\A b \in Bots : InFlight(att[b]) => RequestOrder(att[b], att'[b])]_vars
  /\ \A b \in Bots : InFlight(att[b]) ~> att[b].pc = "done"
  /\ (lpc = "loop") ~> (lpc = "idle")

\* an attempt that has sent all the requests it may send, and has ended
C36_Witness ==
  /\ att["Alpha"].pc = "done"
  /\ att["Alpha"].nStatus = 3 /\ att["Alpha"].nPost = 3
  /\ att["Alpha"].nOracle = 2 /\ att["Alpha"].nVerify = 3
  /\ lpc = "idle"

-----------------------------------------------------------------------------
(* wallet_linked and the verification of the link post                      *)
(* (indexmint.js 262-279)                                                   *)

\* C37: a bot that a run of link.js marks wallet_linked had its link post
\* answered 2xx and, when the reply required verification, verified; a bot
\* whose verification failed is not marked linked.
C37_LinkedImpliesVerified ==
  lnk.pc \in {"run", "done"} =>
    \A b \in Bots :
      /\ (lnk.status[b].wallet_linked /\ ~lnk.loaded[b].wallet_linked) =>
           lnk.verification[b] \in {"not_required", "success"}
      /\ lnk.verification[b] = "failed" => ~lnk.status[b].wallet_linked

-----------------------------------------------------------------------------
(* Starvation (mint.js 229-238, 302-322, 338-354)                           *)

\* C38: after every attempt of a bot the stored timers give a remaining wait
\* that is a number, and once that wait has passed the bot is ready: no
\* stored timer value leaves a bot in the cooling set for ever.
C38_NoStarvation ==
  \A b \in Bots :
    att[b].pc = "done" =>
      LET r == getTimeUntilMint(mem[b], clock)
      IN /\ ~r.nan
         /\ IsZero(getTimeUntilMint(mem[b], clock + r.ms))

====
